---- MODULE Spec2Model ----
(***************************************************************************)
(* BehaviorGuard main process (src/main.js): raw event ingestion, the      *)
(* training state machine, the periodic evaluator, profile storage and     *)
(* monitoring start/stop, as one state machine.                            *)
(*                                                                         *)
(* Conventions.                                                            *)
(*  - A JavaScript value that may be null/undefined is a sequence of       *)
(*    length 0 (NULL) or 1 (Some(x)).                                      *)
(*  - A JavaScript object is a record; a Map or a JSON object used as a    *)
(*    dictionary is a function whose DOMAIN is its set of keys.            *)
(*  - Times are milliseconds, as Date.now() returns them.                  *)
(*  - Buffer capacities and minimum sample counts are scaled down (the     *)
(*    value of the source is given beside each); every other number is     *)
(*    the number of the source.                                            *)
(***************************************************************************)
EXTENDS Integers, Sequences, FiniteSets, TLC

VARIABLES
    now,            \* Date.now()
    wallClock,      \* [h, day]: getHours() and getDay() of the wall clock (main.js:302)
    fresh,          \* number of nonces drawn so far: crypto.randomBytes never repeats
    isMonitoring,   \* main.js:22
    isLocked,       \* main.js:23
    lockWindow,     \* main.js:18, TRUE while the lock BrowserWindow exists
    uIOhook,        \* main.js:21 and the state of the native hook it refers to
    analysisTimer,  \* main.js:311, NULL or Some(time the interval next fires)
    saveTimers,     \* number of setInterval(saveTrainingProgress) timers alive (main.js:518)
    RAW,            \* main.js:26-30
    SESSION,        \* main.js:33-37
    shared,         \* which interval arrays SESSION.profile shares with RAW (main.js:380,398)
    SETTINGS,       \* main.js:40-43
    ALERTS,         \* main.js:45
    store           \* the electron-store documents (main.js:14)

vars == <<now, wallClock, fresh, isMonitoring, isLocked, lockWindow, uIOhook, analysisTimer,
          saveTimers, RAW, SESSION, shared, SETTINGS, ALERTS, store>>

-----------------------------------------------------------------------------
(* Bounds of the model *)

\* Date.now() when the model starts, and the last instant it explores (ms later)
T0 == 1000
MaxElapsed == 9000
\* nonces drawn in one behaviour (each cold start and each reset draws one)
MaxNonces == 3
\* hook.on registrations in one process (each startMonitoring registers again)
MaxListeners == 2

\* Capacities and minimum sample counts, scaled
KS_CAP == 3
MOUSE_CAP == 3
CLICK_CAP == 2
SCROLL_CAP == 2
JITTER_CAP == 1
NGRAM_CAP == 2
MIN_KS == 2
MIN_MOUSE == 2
MIN_CLICK == 2

-----------------------------------------------------------------------------
(* Program constants *)

QUICK_TARGET == 30 * 60 * 1000
FULL_TARGET == 120 * 60 * 1000
ACTIVE_GAP == 10000
TICK_MS == 3000
DWELL_MIN == 1
DWELL_MAX == 1000
MOUSE_DT_MAX == 500
FLIGHT_MAX == 2000
IV_MAX == 2000
WPM_MIN_EVENTS == 10
DIGVAR_MIN_SAMPLES == 3
ENTROPY_MIN_ANGLES == 10
JITTER_MIN_SAMPLES == 20
JITTER_MIN_ACC == 10
SNAPSHOT_KEEP == 500
ALERTS_CAP == 200
ALERTS_STORED == 100

-----------------------------------------------------------------------------
(* Inputs *)

KeyCodes == {30, 31}
MousePoints == {<<0, 0>>, <<4, 0>>}
ClickPoints == {<<0, 0>>}
Buttons == {1}
Rotations == {1}
TimeSteps == {250, 3000}

-----------------------------------------------------------------------------
(* Values *)

NULL == <<>>
Some(x) == <<x>>
Val(o) == o[1]

EmptyMap == <<>>
Has(map, k) == k \in DOMAIN map
Put(map, k, v) == [x \in (DOMAIN map) \cup {k} |-> IF x = k THEN v ELSE map[x]]

Abs(x) == IF x < 0 THEN 0 - x ELSE x
Min(a, b) == IF a < b THEN a ELSE b
Max(a, b) == IF a > b THEN a ELSE b
\* Math.sqrt on the perfect squares the mouse inputs produce
Sqrt(n) == CHOOSE r \in 0..n : r * r = n
\* Array.slice(-k)
LastN(s, k) == IF Len(s) <= k THEN s ELSE SubSeq(s, Len(s) - k + 1, Len(s))
\* Array.slice(0, k)
FirstN(s, k) == IF Len(s) <= k THEN s ELSE SubSeq(s, 1, k)
\* a push that drops the new entry, not the oldest, over the capacity
PushCapDropsNewest(arr, x, cap) ==
    LET a == Append(arr, x) IN IF Len(a) > cap THEN SubSeq(a, 1, cap) ELSE a

\* arr.push(x); if (arr.length > cap) arr.shift()
PushCap(arr, x, cap) ==
    LET a == Append(arr, x) IN IF Len(a) > cap THEN Tail(a) ELSE a

\* A real number the program computes is the exact fraction <<n, d>>, d > 0, in
\* lowest terms (the program computes in IEEE doubles).  NaN, the result of
\* arithmetic on undefined, is <<0, 0>>: every operation on it yields NaN and
\* every comparison with it is false.
NaN == <<0, 0>>
RECURSIVE GCD(_, _)
GCD(a, b) == IF b = 0 THEN a ELSE GCD(b, a % b)
Frac(n, d) ==
    LET g == GCD(Abs(n), Abs(d))
        s == IF d < 0 THEN 0 - 1 ELSE 1
    IN IF d = 0 THEN NaN ELSE <<(s * n) \div g, (s * d) \div g>>
F(i) == <<i, 1>>
FAdd(a, b) == Frac(a[1] * b[2] + b[1] * a[2], a[2] * b[2])
FSub(a, b) == Frac(a[1] * b[2] - b[1] * a[2], a[2] * b[2])
FMul(a, b) == Frac(a[1] * b[1], a[2] * b[2])
\* the program divides by a number that is not zero
FDiv(a, b) == Frac(a[1] * b[2], a[2] * b[1])
FAbs(a) == <<Abs(a[1]), a[2]>>
FLt(a, b) == a[1] * b[2] < b[1] * a[2]
FLe(a, b) == a # NaN /\ b # NaN /\ a[1] * b[2] <= b[1] * a[2]
\* Math.min, Math.max
FMin(a, b) == IF a = NaN THEN NaN ELSE IF FLt(a, b) THEN a ELSE b
FMax(a, b) == IF a = NaN THEN NaN ELSE IF FLt(b, a) THEN a ELSE b
\* the number read from field f of a parsed document: a missing field is undefined
Num(rec, f) == IF Has(rec, f) THEN rec[f] ELSE NaN

\* [...a].sort((x,y)=>x-y)
\* a[i] goes to the place after the entries smaller than it and the equal ones
\* before it (the entries are numbers); placed pairs each place with its entry
Sorted(a) ==
    LET n == Len(a)
        placed == {<<1 + Cardinality({j \in 1..n : FLt(a[j], a[i]) \/ (a[j] = a[i] /\ j < i)}),
                     i>> : i \in 1..n}
    IN [k \in 1..n |-> a[(CHOOSE p \in placed : p[1] = k)[2]]]
RECURSIVE Sum(_)
Sum(a) ==
    LET n == Len(a)
        h == n \div 2
    IN IF n = 0 THEN F(0)
       ELSE IF n = 1 THEN a[1]
       ELSE FAdd(Sum(SubSeq(a, 1, h)), Sum(SubSeq(a, h + 1, n)))   \* exact, in any order
Map1(Op(_), a) == [i \in 1..Len(a) |-> Op(a[i])]

\* main.js:54-59, on sequences of fractions
_mean(a) == IF Len(a) > 0 THEN FDiv(Sum(a), F(Len(a))) ELSE F(0)
_med(a) ==
    IF Len(a) = 0 THEN F(0)
    ELSE LET s == Sorted(a)
             m == Len(s) \div 2
         IN IF Len(s) % 2 = 1 THEN s[m + 1] ELSE FDiv(FAdd(s[m], s[m + 1]), F(2))
_mad(a) ==
    LET m == _med(a)
    IN FMul(_med(Map1(LAMBDA x : FAbs(FSub(x, m)), a)), Frac(14826, 10000))
_pct(a, p) ==
    IF Len(a) = 0 THEN F(0)
    ELSE LET s == Sorted(a)
             k == p * (Len(s) - 1)           \* i = k / 100
             lo == k \div 100
             f == Frac(k % 100, 100)         \* i % 1
             hi == IF k % 100 = 0 THEN lo ELSE lo + 1
             up == IF s[hi + 1] = F(0) THEN s[lo + 1] ELSE s[hi + 1]   \* s[ceil] || s[lo]
         IN FAdd(FMul(s[lo + 1], FSub(F(1), f)), FMul(up, f))
_iqr(a) == FSub(_pct(a, 75), _pct(a, 25))
\* the variance whose square root _std returns
_var(a) ==
    LET m == _mean(a)
    IN _mean(Map1(LAMBDA x : FMul(FSub(x, m), FSub(x, m)), a))

\* _hashPair, main.js:60: the string `${a}_${b}` identifies the ordered pair
_hashPair(a, b) == <<a, b>>

-----------------------------------------------------------------------------
(* Activity tracking, main.js:80-88 *)

markActivity(S, t) ==
    IF S.isTraining
    THEN [S EXCEPT
            !.trainStart = IF S.trainStart = NULL THEN Some(t) ELSE @,
            !.activeTime =
                IF S.lastActive # NULL /\ (t - Val(S.lastActive)) < ACTIVE_GAP
                THEN @ + (t - Val(S.lastActive))
                ELSE @,
            !.lastActive = Some(t)]
    ELSE S

-----------------------------------------------------------------------------
(* Raw event handlers, main.js:93-162.  A handler maps the memory            *)
(* m = [RAW, SESSION] before the call to the memory after it; t is Date.now() *)

\* arr = map.get(h) (created empty when absent); arr.push(x); shift over 30 entries
PushNgram(map, h, x) ==
    Put(map, h, PushCap(IF Has(map, h) THEN map[h] ELSE <<>>, x, NGRAM_CAP))

\* The array under key h of RAW[field] is the very array SESSION.profile[field]
\* holds under h when h is in shared[field]: a push to one is a push to both.
WriteThrough(S, field, h, arr) ==
    IF S.profile # NULL /\ h \in shared[field]
    THEN [S EXCEPT !.profile = Some([Val(@) EXCEPT ![field] = Put(@, h, arr)])]
    ELSE S

onKeyDown(m, kc, t) ==
    IF ~isMonitoring \/ ~SETTINGS.enabled THEN m
    ELSE [RAW |-> [m.RAW EXCEPT
                     !.keydowns = IF Has(@, kc) THEN @ ELSE Put(@, kc, t)],
          SESSION |-> markActivity(m.SESSION, t)]

\* onKeyUp without the upper limit on the dwell
onKeyUpAnyDwell(m, kc, t) ==
    IF ~isMonitoring \/ ~SETTINGS.enabled THEN m
    ELSE
    LET R == m.RAW
        S == markActivity(m.SESSION, t)
    IN
    IF ~Has(R.keydowns, kc) THEN [RAW |-> R, SESSION |-> S]
    ELSE
    LET dn == R.keydowns[kc]
        dwell == t - dn
        flight == IF R.lastRelease # NULL THEN Some(dn - Val(R.lastRelease)) ELSE NULL
        R1 == [R EXCEPT
                 !.keydowns = [k \in (DOMAIN @) \ {kc} |-> @[k]],
                 !.lastRelease = Some(t)]
    IN
    IF dwell < DWELL_MIN THEN [RAW |-> R1, SESSION |-> S]
    ELSE
    LET ev == [kc |-> kc, dwell |-> dwell, flight |-> flight, ts |-> dn, nonce |-> R.nonce]
        ks == PushCap(R.ksEvents, ev, KS_CAP)
        n == Len(ks)
        h2 == _hashPair(ks[n - 1].kc, kc)
        dig == IF n >= 2 THEN PushNgram(R.digraphs, h2, dn - ks[n - 1].ts) ELSE R.digraphs
        h3 == _hashPair(_hashPair(ks[n - 2].kc, ks[n - 1].kc), kc)
        tri == IF n >= 3 THEN PushNgram(R.trigraphs, h3, dn - ks[n - 2].ts) ELSE R.trigraphs
        S2 == IF n >= 2 THEN WriteThrough(S, "digraphs", h2, dig[h2]) ELSE S
        S3 == IF n >= 3 THEN WriteThrough(S2, "trigraphs", h3, tri[h3]) ELSE S2
    IN [RAW |-> [R1 EXCEPT !.ksEvents = ks, !.digraphs = dig, !.trigraphs = tri],
        SESSION |-> S3]

onKeyUp(m, kc, t) ==
    IF ~isMonitoring \/ ~SETTINGS.enabled THEN m
    ELSE
    LET R == m.RAW
        S == markActivity(m.SESSION, t)
    IN
    IF ~Has(R.keydowns, kc) THEN [RAW |-> R, SESSION |-> S]
    ELSE
    LET dn == R.keydowns[kc]
        dwell == t - dn
        flight == IF R.lastRelease # NULL THEN Some(dn - Val(R.lastRelease)) ELSE NULL
        R1 == [R EXCEPT
                 !.keydowns = [k \in (DOMAIN @) \ {kc} |-> @[k]],
                 !.lastRelease = Some(t)]
    IN
    IF dwell < DWELL_MIN \/ dwell > DWELL_MAX THEN [RAW |-> R1, SESSION |-> S]
    ELSE
    LET ev == [kc |-> kc, dwell |-> dwell, flight |-> flight, ts |-> dn, nonce |-> R.nonce]
        ks == PushCap(R.ksEvents, ev, KS_CAP)
        n == Len(ks)
        h2 == _hashPair(ks[n - 1].kc, kc)
        dig == IF n >= 2 THEN PushNgram(R.digraphs, h2, dn - ks[n - 1].ts) ELSE R.digraphs
        h3 == _hashPair(_hashPair(ks[n - 2].kc, ks[n - 1].kc), kc)
        tri == IF n >= 3 THEN PushNgram(R.trigraphs, h3, dn - ks[n - 2].ts) ELSE R.trigraphs
        S2 == IF n >= 2 THEN WriteThrough(S, "digraphs", h2, dig[h2]) ELSE S
        S3 == IF n >= 3 THEN WriteThrough(S2, "trigraphs", h3, tri[h3]) ELSE S2
    IN [RAW |-> [R1 EXCEPT !.ksEvents = ks, !.digraphs = dig, !.trigraphs = tri],
        SESSION |-> S3]

onMouseMove(m, x, y, t) ==
    IF ~isMonitoring \/ ~SETTINGS.enabled THEN m
    ELSE
    LET R == m.RAW
        n == Len(R.mouseEvts)
        p == R.mouseEvts[n]
        dt == t - p.t                       \* in ms; the source divides by 1000
        inWindow == n > 0 /\ dt > 0 /\ dt < MOUSE_DT_MAX
        dx == x - p.x
        dy == y - p.y
        v == Frac(Sqrt(dx * dx + dy * dy) * 1000, dt)
        hasAcc == inWindow /\ p.v # NULL
        acc == FDiv(FAbs(FSub(v, Val(p.v))), Frac(dt, 1000))
        ev == [x |-> x, y |-> y, t |-> t, nonce |-> R.nonce,
               v |-> IF inWindow THEN Some(v) ELSE NULL,
               acc |-> IF hasAcc THEN Some(acc) ELSE NULL]
    IN [RAW |-> [R EXCEPT
                   !.jitterBuf = IF hasAcc
                                 THEN PushCap(@, [t |-> t, acc |-> acc, v |-> v], JITTER_CAP)
                                 ELSE @,
                   !.mouseEvts = PushCap(@, ev, MOUSE_CAP)],
        SESSION |-> markActivity(m.SESSION, t)]

onClick(m, x, y, btn, t) ==
    IF ~isMonitoring \/ ~SETTINGS.enabled THEN m
    ELSE [RAW |-> [m.RAW EXCEPT
                     !.clicks = PushCap(@, [x |-> x, y |-> y, t |-> t, btn |-> btn,
                                            nonce |-> m.RAW.nonce], CLICK_CAP)],
          SESSION |-> markActivity(m.SESSION, t)]

\* onWheel without the check of isMonitoring and SETTINGS.enabled
onWheelUngated(m, rotation, t) ==
    [RAW |-> [m.RAW EXCEPT
                !.scrolls = PushCap(@, [amount |-> rotation, t |-> t], SCROLL_CAP)],
     SESSION |-> markActivity(m.SESSION, t)]

onWheel(m, rotation, t) ==
    IF ~isMonitoring \/ ~SETTINGS.enabled THEN m
    ELSE [RAW |-> [m.RAW EXCEPT
                     !.scrolls = PushCap(@, [amount |-> rotation, t |-> t], SCROLL_CAP)],
          SESSION |-> markActivity(m.SESSION, t)]

-----------------------------------------------------------------------------
(* Feature extraction, main.js:167-229.  A feature vector holds the fields  *)
(* the main process reads again (calcTrustScore, detectBot); the fields it  *)
(* only forwards to the renderer are left out.                              *)

\* A value of the program the model has no exact form for: evaluating it stops TLC
Unmodelled == CHOOSE x \in {} : TRUE

RECURSIVE SetToSeq(_)
SetToSeq(S) ==
    IF S = {} THEN <<>>
    ELSE LET x == CHOOSE y \in S : TRUE IN <<x>> \o SetToSeq(S \ {x})

Ints(a) == Map1(LAMBDA x : F(x), a)

\* digVar = _med of the _std of every digraph list with >= 3 entries (main.js:174-175,182).
\* The median of square roots is kept as the two middle variances lo <= hi
\* (the same one when their number is odd): digVar = (sqrt(lo) + sqrt(hi)) / 2.
DigVar(digraphs) ==
    LET keys == SetToSeq({h \in DOMAIN digraphs : Len(digraphs[h]) >= DIGVAR_MIN_SAMPLES})
        vs == Sorted(Map1(LAMBDA h : _var(Ints(digraphs[h])), keys))
        m == Len(vs) \div 2
    IN IF Len(vs) = 0 THEN [lo |-> F(0), hi |-> F(0)]
       ELSE IF Len(vs) % 2 = 1 THEN [lo |-> vs[m + 1], hi |-> vs[m + 1]]
       ELSE [lo |-> vs[m], hi |-> vs[m + 1]]

\* digVar < c, for an integer c > 0: sqrt(lo) + sqrt(hi) < 2c
DigVarLt(dv, c) ==
    LET c2 == F(4 * c * c)
        rhs == FSub(FAdd(c2, dv.hi), dv.lo)
    IN /\ FLt(dv.hi, c2)
       /\ FLt(FMul(FMul(F(4), c2), dv.hi), FMul(rhs, rhs))

\* the minimum applied to the events that have a flight time in range
extractKSCountsFlights(R) ==
    LET v == SelectSeq(R.ksEvents, LAMBDA k : k.dwell # 0 /\ k.dwell < DWELL_MAX)
        n == Len(v)
        dw == Map1(LAMBDA k : F(k.dwell), v)
        fl == Map1(LAMBDA k : F(Val(k.flight)),
                   SelectSeq(v, LAMBDA k : /\ k.flight # NULL
                                           /\ Val(k.flight) > 0
                                           /\ Val(k.flight) < FLIGHT_MAX))
        iv == Ints(SelectSeq([i \in 1..(n - 1) |-> v[i + 1].ts - v[i].ts],
                             LAMBDA d : d > 0 /\ d < IV_MAX))
        dur == v[n].ts - v[1].ts              \* ms; the source divides by 60000
    IN IF Len(fl) < MIN_KS THEN NULL
       ELSE Some([medDwell |-> _med(dw), madDwell |-> _mad(dw),
                  medFlight |-> IF Len(fl) > 0 THEN _med(fl) ELSE F(0),
                  medIv |-> IF Len(iv) > 0 THEN _med(iv) ELSE F(0),
                  iqrIv |-> IF Len(iv) > 0 THEN _iqr(iv) ELSE F(0),
                  wpm |-> IF n < WPM_MIN_EVENTS THEN F(0)
                          ELSE IF dur > 0 THEN FDiv(Frac(n, 5), Frac(dur, 60000))
                          ELSE F(0),
                  digVar |-> DigVar(R.digraphs),
                  n |-> n])

extractKS(R) ==
    LET v == SelectSeq(R.ksEvents, LAMBDA k : k.dwell # 0 /\ k.dwell < DWELL_MAX)
        n == Len(v)
        dw == Map1(LAMBDA k : F(k.dwell), v)
        fl == Map1(LAMBDA k : F(Val(k.flight)),
                   SelectSeq(v, LAMBDA k : /\ k.flight # NULL
                                           /\ Val(k.flight) > 0
                                           /\ Val(k.flight) < FLIGHT_MAX))
        iv == Ints(SelectSeq([i \in 1..(n - 1) |-> v[i + 1].ts - v[i].ts],
                             LAMBDA d : d > 0 /\ d < IV_MAX))
        dur == v[n].ts - v[1].ts              \* ms; the source divides by 60000
    IN IF n < MIN_KS THEN NULL
       ELSE Some([medDwell |-> _med(dw), madDwell |-> _mad(dw),
                  medFlight |-> IF Len(fl) > 0 THEN _med(fl) ELSE F(0),
                  medIv |-> IF Len(iv) > 0 THEN _med(iv) ELSE F(0),
                  iqrIv |-> IF Len(iv) > 0 THEN _iqr(iv) ELSE F(0),
                  wpm |-> IF n < WPM_MIN_EVENTS THEN F(0)
                          ELSE IF dur > 0 THEN FDiv(Frac(n, 5), Frac(dur, 60000))
                          ELSE F(0),
                  digVar |-> DigVar(R.digraphs),
                  n |-> n])

\* Math.atan2(y, x) / PI.  The mouse inputs move along the axes only.
Atan2Pi(y, x) ==
    IF y = 0 THEN (IF x < 0 THEN F(1) ELSE F(0))
    ELSE IF x = 0 THEN (IF y > 0 THEN Frac(1, 2) ELSE Frac(0 - 1, 2))
    ELSE Unmodelled

extractMouse(R) ==
    LET m == R.mouseEvts
        n == Len(m)
        dt(i) == m[i].t - m[i - 1].t
        ok(i) == dt(i) > 0 /\ dt(i) < MOUSE_DT_MAX
        dx(i) == m[i].x - m[i - 1].x
        dy(i) == m[i].y - m[i - 1].y
        idx == SelectSeq([i \in 1..(n - 1) |-> i + 1], ok)
        vels == Map1(LAMBDA i : Frac(Sqrt(dx(i) * dx(i) + dy(i) * dy(i)) * 1000, dt(i)), idx)
        \* in units of PI
        angles == Map1(LAMBDA i : FAbs(FSub(Atan2Pi(dy(i), dx(i)),
                                            Atan2Pi(dy(i - 1), dx(i - 1)))),
                       SelectSeq(idx, LAMBDA i : i > 2))
        bin(x) == Min(9, (10 * x[1]) \div x[2])
        entropy ==
            IF Len(angles) < ENTROPY_MIN_ANGLES THEN F(0)
            ELSE IF \A i \in 1..Len(angles) : bin(angles[i]) = bin(angles[1]) THEN F(0)
            ELSE Unmodelled                 \* a sum of p*log2(p) over several bins
        jb == R.jitterBuf
        acc == Map1(LAMBDA j : j.acc, jb)
        m2 == _mean(acc)
        sign(x) == IF FLt(x, m2) THEN 0 - 1 ELSE IF FLt(m2, x) THEN 1 ELSE 0
        zc == Cardinality({i \in 2..Len(acc) : sign(acc[i]) * sign(acc[i - 1]) < 0})
        jdur == jb[Len(jb)].t - jb[1].t       \* ms
        jFreq == IF Len(jb) >= JITTER_MIN_SAMPLES /\ Len(acc) >= JITTER_MIN_ACC /\ jdur > 0
                 THEN FDiv(Frac(zc, 2), Frac(jdur, 1000))
                 ELSE F(0)
    IN IF n < MIN_MOUSE THEN NULL
       ELSE Some([avgVel |-> _mean(vels),
                  curvature |-> IF Len(angles) > 0 THEN _mean(angles) ELSE F(0),
                  entropy |-> entropy, jitterFreq |-> jFreq, n |-> n])

extractClick(R) ==
    LET c == R.clicks
        n == Len(c)
        dists == [i \in 1..(n - 1) |->
                    LET dx == c[i + 1].x - c[i].x
                        dy == c[i + 1].y - c[i].y
                    IN F(Sqrt(dx * dx + dy * dy))]
        dur == c[n].t - c[1].t                \* ms; the source divides by 60000
    IN IF n < MIN_CLICK THEN NULL
       ELSE Some([avgDist |-> _mean(dists),
                  cpm |-> IF dur > 0 THEN FDiv(F(n), Frac(dur, 60000)) ELSE F(0),
                  n |-> n])

-----------------------------------------------------------------------------
(* Bot and replay detection, main.js:234-268 *)

\* |a1 - a2| > 0.1 && |a1 - a2| < PI - 0.1, for a difference d (in units of PI)
\* of two axis directions, a multiple of 1/2
MicroCorrection(d) == FLt(F(0), d) /\ FLt(d, F(1))

\* detectBot counting micro-corrections over the whole mouse buffer
detectBotAllSamples(ks, mouse, R) ==
    LET jf == Val(mouse).jitterFreq
        human == FLe(F(3), jf) /\ FLe(jf, F(12))
        medIv == Val(ks).medIv
        cv == IF FLt(F(0), medIv) THEN FDiv(Val(ks).iqrIv, medIv) ELSE F(0)
        r == R.mouseEvts
        dir(i) == Atan2Pi(r[i].y - r[i - 1].y, r[i].x - r[i - 1].x)
        changes == Cardinality({i \in 3..Len(r) :
                                  MicroCorrection(FAbs(FSub(dir(i - 1), dir(i))))})
        rules == <<
            [on |-> mouse # NULL /\ FLt(Val(mouse).entropy, Frac(2, 100)),
             pts |-> 40, reason |-> "Mouse entropy < 0.02"],
            [on |-> mouse # NULL /\ ~human /\ FLt(F(0), jf),
             pts |-> 30, reason |-> "Jitter Hz"],
            [on |-> mouse # NULL /\ FLt(Val(mouse).curvature, Frac(1, 100)),
             pts |-> 25, reason |-> "Perfect geometric paths"],
            [on |-> ks # NULL /\ FLt(medIv, F(30)),
             pts |-> 50, reason |-> "Superhuman speed <30ms"],
            [on |-> ks # NULL /\ FLt(cv, Frac(15, 100)) /\ Val(ks).n > 30,
             pts |-> 25, reason |-> "CV too consistent"],
            [on |-> ks # NULL /\ DigVarLt(Val(ks).digVar, 3)
                              /\ Cardinality(DOMAIN R.digraphs) > 10,
             pts |-> 20, reason |-> "Digraph variance too low"],
            [on |-> Len(R.mouseEvts) >= 20
                    /\ FLt(Frac(changes, Len(r) - 2), Frac(15, 100)),
             pts |-> 30, reason |-> "No micro-corrections"] >>
        fired == SelectSeq(rules, LAMBDA x : x.on)
        score == Sum(Map1(LAMBDA x : F(x.pts), fired))[1]
    IN [isBot |-> score >= 85, confidence |-> Min(100, score),
        reason |-> Map1(LAMBDA x : x.reason, fired)]

detectBot(ks, mouse, R) ==
    LET jf == Val(mouse).jitterFreq
        human == FLe(F(3), jf) /\ FLe(jf, F(12))
        medIv == Val(ks).medIv
        cv == IF FLt(F(0), medIv) THEN FDiv(Val(ks).iqrIv, medIv) ELSE F(0)
        r == LastN(R.mouseEvts, 50)
        dir(i) == Atan2Pi(r[i].y - r[i - 1].y, r[i].x - r[i - 1].x)
        changes == Cardinality({i \in 3..Len(r) :
                                  MicroCorrection(FAbs(FSub(dir(i - 1), dir(i))))})
        rules == <<
            [on |-> mouse # NULL /\ FLt(Val(mouse).entropy, Frac(2, 100)),
             pts |-> 40, reason |-> "Mouse entropy < 0.02"],
            [on |-> mouse # NULL /\ ~human /\ FLt(F(0), jf),
             pts |-> 30, reason |-> "Jitter Hz"],
            [on |-> mouse # NULL /\ FLt(Val(mouse).curvature, Frac(1, 100)),
             pts |-> 25, reason |-> "Perfect geometric paths"],
            [on |-> ks # NULL /\ FLt(medIv, F(30)),
             pts |-> 50, reason |-> "Superhuman speed <30ms"],
            [on |-> ks # NULL /\ FLt(cv, Frac(15, 100)) /\ Val(ks).n > 30,
             pts |-> 25, reason |-> "CV too consistent"],
            [on |-> ks # NULL /\ DigVarLt(Val(ks).digVar, 3)
                              /\ Cardinality(DOMAIN R.digraphs) > 10,
             pts |-> 20, reason |-> "Digraph variance too low"],
            [on |-> Len(R.mouseEvts) >= 20
                    /\ FLt(Frac(changes, Len(r) - 2), Frac(15, 100)),
             pts |-> 30, reason |-> "No micro-corrections"] >>
        fired == SelectSeq(rules, LAMBDA x : x.on)
        score == Sum(Map1(LAMBDA x : F(x.pts), fired))[1]
    IN [isBot |-> score >= 85, confidence |-> Min(100, score),
        reason |-> Map1(LAMBDA x : x.reason, fired)]

\* detectReplay over the whole keystroke buffer
detectReplayAllEvents(R) ==
    LET recent == R.ksEvents
        nonces == {recent[i].nonce : i \in 1..Len(recent)}
        ivs == [i \in 1..(Len(recent) - 1) |-> recent[i + 1].ts - recent[i].ts]
    IN IF Cardinality(nonces) > 1
       THEN [isReplay |-> TRUE, reason |-> "Multiple session nonces"]
       ELSE IF Len(ivs) > 5 /\ \A i \in 1..Len(ivs) : ivs[i] = ivs[1]
       THEN [isReplay |-> TRUE, reason |-> "Identical intervals"]
       ELSE [isReplay |-> FALSE, reason |-> ""]

detectReplay(R) ==
    LET recent == LastN(R.ksEvents, 20)
        \* a nonce is a non-empty hex string: .filter(Boolean) keeps every one
        nonces == {recent[i].nonce : i \in 1..Len(recent)}
        ivs == [i \in 1..(Len(recent) - 1) |-> recent[i + 1].ts - recent[i].ts]
    IN IF Cardinality(nonces) > 1
       THEN [isReplay |-> TRUE, reason |-> "Multiple session nonces"]
       ELSE IF Len(ivs) > 5 /\ \A i \in 1..Len(ivs) : ivs[i] = ivs[1]
       THEN [isReplay |-> TRUE, reason |-> "Identical intervals"]
       ELSE [isReplay |-> FALSE, reason |-> ""]

-----------------------------------------------------------------------------
(* Risk calculation, main.js:273-306 *)

\* cmp of main.js:280 and its inlined forms at 288, 295, 296:
\* the term min(1, |cv-bv|/bv/tol)*100 of every metric whose baseline is > 0
Deviation(cv, bv, tol) == FMul(FMin(F(1), FDiv(FDiv(FAbs(FSub(cv, bv)), bv), tol)), F(100))
ChannelRisk(terms) == IF Len(terms) > 0 THEN FDiv(Sum(terms), F(Len(terms))) ELSE F(0)

\* the time-context factor of main.js:302-304, for hour h and weekday day
Adjustment(h, day) ==
    FMul(FMul(IF h < 5 \/ h >= 22 THEN Frac(85, 100) ELSE F(1),
              IF day = 0 \/ day = 6 THEN Frac(90, 100) ELSE F(1)),
         IF h >= 5 /\ h < 12 THEN Frac(92, 100) ELSE F(1))

\* main.js:277-305: the score of the current features cur against the baseline base
scoreAgainst(S, cur, base, clock) ==
    LET cK == Val(cur.ks)
        bK == Val(base.ks)
        cM == Val(cur.mouse)
        bM == Val(base.mouse)
        cC == Val(cur.click)
        bC == Val(base.click)
        ksTerms ==
            Map1(LAMBDA x : Deviation(cK[x[1]], Num(bK, x[1]), x[2]),
                 SelectSeq(<< <<"medDwell", Frac(60, 100)>>, <<"madDwell", Frac(70, 100)>>,
                              <<"medFlight", Frac(70, 100)>>, <<"medIv", Frac(65, 100)>>,
                              <<"wpm", Frac(60, 100)>> >>,
                           LAMBDA x : FLt(F(0), Num(bK, x[1]))))
        mouseTerms ==
            (IF FLt(F(0), Num(bM, "avgVel"))
             THEN <<Deviation(cM.avgVel, Num(bM, "avgVel"), F(1))>> ELSE <<>>)
            \o <<FMul(FMin(F(1), FAbs(FSub(cM.curvature, Num(bM, "curvature")))), F(100)),
                 FMul(FMin(F(1), FAbs(FSub(cM.entropy, Num(bM, "entropy")))), F(100))>>
        clickTerms ==
            Map1(LAMBDA x : Deviation(cC[x], Num(bC, x), Frac(12, 10)),
                 SelectSeq(<<"cpm", "avgDist">>, LAMBDA x : FLt(F(0), Num(bC, x))))
        parts ==
            (IF cur.ks # NULL /\ base.ks # NULL
             THEN <<[r |-> ChannelRisk(ksTerms), w |-> Frac(5, 10)]>> ELSE <<>>)
            \o (IF cur.mouse # NULL /\ base.mouse # NULL
                THEN <<[r |-> ChannelRisk(mouseTerms), w |-> Frac(3, 10)]>> ELSE <<>>)
            \o (IF cur.click # NULL /\ base.click # NULL
                THEN <<[r |-> ChannelRisk(clickTerms), w |-> Frac(2, 10)]>> ELSE <<>>)
        tw == Sum(Map1(LAMBDA x : x.w, parts))
        risk == FDiv(Sum(Map1(LAMBDA x : FMul(x.r, x.w), parts)), tw)
        adj == Adjustment(clock.h, clock.day)
    IN IF cur.ks = NULL /\ cur.mouse = NULL THEN S.trustScore
       ELSE IF Len(parts) = 0 THEN S.trustScore
       ELSE Some(FMax(F(0), FMin(F(100), FSub(F(100), FMul(risk, adj)))))

calcTrustScore(S, R, clock) ==
    IF S.profile = NULL \/ ~Has(Val(S.profile), "features") THEN NULL
    ELSE scoreAgainst(S, [ks |-> extractKS(R), mouse |-> extractMouse(R),
                          click |-> extractClick(R)],
                      Val(S.profile).features, clock)

-----------------------------------------------------------------------------
(* Alerts and the lock screen, main.js:429-456.  K is the part of the state  *)
(* the periodic evaluator writes:                                           *)
(* [SESSION, store, shared, ALERTS, isLocked, lockWindow]                   *)

\* The alert's id (Date.now() + Math.random()) is left out: it is never read.
addAlert(K, a, t) ==
    LET al == <<[type |-> a.type, severity |-> a.severity, msg |-> a.msg, ts |-> t]>>
              \o K.ALERTS
        kept == IF Len(al) > ALERTS_CAP THEN SubSeq(al, 1, Len(al) - 1) ELSE al
    IN [K EXCEPT !.ALERTS = kept, !.store.alerts = FirstN(kept, ALERTS_STORED)]

showLockScreen(K) ==
    IF K.isLocked \/ K.lockWindow THEN K
    ELSE [K EXCEPT !.isLocked = TRUE, !.lockWindow = TRUE]

-----------------------------------------------------------------------------
(* Training, main.js:362-389 *)

\* completion that does not wait for features
completeTrainingUnconditional(K, R, t) ==
    LET profile == [uid |-> "user", createdAt |-> t,
                    features |-> [ks |-> extractKS(R), mouse |-> extractMouse(R),
                                  click |-> extractClick(R)],
                    digraphs |-> R.digraphs, trigraphs |-> R.trigraphs,
                    size |-> [keystrokes |-> Len(R.ksEvents), mouse |-> Len(R.mouseEvts),
                              clicks |-> Len(R.clicks),
                              digraphs |-> Cardinality(DOMAIN R.digraphs)],
                    v |-> "3.0"]
    IN [K EXCEPT
          !.SESSION.profile = Some(profile),
          !.SESSION.isTraining = FALSE,
          !.SESSION.phase = "complete",
          !.shared = [digraphs |-> DOMAIN R.digraphs, trigraphs |-> DOMAIN R.trigraphs],
          !.store.profile = Some(profile),
          !.store.training = NULL]

completeTraining(K, R, t) ==
    LET ks == extractKS(R)
        mouse == extractMouse(R)
        click == extractClick(R)
        profile == [uid |-> "user", createdAt |-> t,
                    features |-> [ks |-> ks, mouse |-> mouse, click |-> click],
                    digraphs |-> R.digraphs, trigraphs |-> R.trigraphs,
                    size |-> [keystrokes |-> Len(R.ksEvents), mouse |-> Len(R.mouseEvts),
                              clicks |-> Len(R.clicks),
                              digraphs |-> Cardinality(DOMAIN R.digraphs)],
                    v |-> "3.0"]
    IN IF ks = NULL /\ mouse = NULL THEN K
       ELSE [K EXCEPT
               !.SESSION.profile = Some(profile),
               !.SESSION.isTraining = FALSE,
               !.SESSION.phase = "complete",
               \* Object.fromEntries copies the references to the interval arrays
               !.shared = [digraphs |-> DOMAIN R.digraphs, trigraphs |-> DOMAIN R.trigraphs],
               \* store.set serialises: the stored document is a copy
               !.store.profile = Some(profile),
               !.store.training = NULL]

\* leaving the quick phase without restarting the active-time count
checkTrainingProgressKeepsTime(K, R, t) ==
    LET S == K.SESSION
        target == IF S.phase = "quick" THEN QUICK_TARGET ELSE FULL_TARGET
    IN IF S.activeTime >= target
       THEN IF S.phase = "quick"
            THEN [K EXCEPT !.SESSION.phase = "intermediate", !.SESSION.lastActive = Some(t)]
            ELSE completeTraining(K, R, t)
       ELSE K

checkTrainingProgress(K, R, t) ==
    LET S == K.SESSION
        target == IF S.phase = "quick" THEN QUICK_TARGET ELSE FULL_TARGET
        pct == FMin(F(100), FMul(Frac(S.activeTime, target), F(100)))
    IN IF FLe(F(100), pct)
       THEN IF S.phase = "quick"
            THEN [K EXCEPT !.SESSION.phase = "intermediate",
                           !.SESSION.activeTime = 0,
                           !.SESSION.lastActive = Some(t)]
            ELSE completeTraining(K, R, t)
       ELSE K

-----------------------------------------------------------------------------
(* The periodic evaluator, main.js:315-344 *)

\* one threshold for every sensitivity
ThresholdFlat(sensitivity) == 30

Threshold(sensitivity) ==
    CASE sensitivity = "low" -> 15
      [] sensitivity = "medium" -> 30
      [] sensitivity = "high" -> 50
      [] OTHER -> 30

\* Math.round of a fraction >= 0
Round(x) == (2 * x[1] + x[2]) \div (2 * x[2])

\* main.js:326-329: an alert for each positive detection
detect(K, bot, replay, t) ==
    LET K2 == IF bot.isBot
              THEN addAlert(K, [type |-> "bot", severity |-> "critical",
                                msg |-> <<"Bot activity", bot.reason>>], t)
              ELSE K
    IN IF replay.isReplay
       THEN addAlert(K2, [type |-> "replay", severity |-> "high",
                          msg |-> <<"Replay attack", replay.reason>>], t)
       ELSE K2

\* countLow that shows the lock screen whatever the autoBlock setting
countLowLocksUnasked(K, sc, t) ==
    LET thr == Threshold(SETTINGS.sensitivity)
        n == K.SESSION.consecutive + 1
        K4 == addAlert(K, [type |-> "anomaly",
                           severity |-> IF FLt(sc, F(20)) THEN "critical" ELSE "high",
                           msg |-> <<"Trust score for 3+ cycles", Round(sc)>>], t)
        K5 == IF FLt(sc, F(20)) /\ ~K4.isLocked
              THEN showLockScreen(K4) ELSE K4
    IN IF FLt(sc, F(thr))
       THEN IF n >= 3
            THEN [K5 EXCEPT !.SESSION.consecutive = 0]
            ELSE [K EXCEPT !.SESSION.consecutive = n]
       ELSE [K EXCEPT !.SESSION.consecutive = 0]

\* main.js:330-339: the count of consecutive scores under the threshold
countLow(K, sc, t) ==
    LET thr == Threshold(SETTINGS.sensitivity)
        n == K.SESSION.consecutive + 1
        K4 == addAlert(K, [type |-> "anomaly",
                           severity |-> IF FLt(sc, F(20)) THEN "critical" ELSE "high",
                           msg |-> <<"Trust score for 3+ cycles", Round(sc)>>], t)
        K5 == IF SETTINGS.autoBlock /\ FLt(sc, F(20)) /\ ~K4.isLocked
              THEN showLockScreen(K4) ELSE K4
    IN IF FLt(sc, F(thr))
       THEN IF n >= 3
            THEN [K5 EXCEPT !.SESSION.consecutive = 0]
            ELSE [K EXCEPT !.SESSION.consecutive = n]
       ELSE [K EXCEPT !.SESSION.consecutive = 0]

\* main.js:323-342: what the evaluation does with the score
scored(K, score, R, t) ==
    IF score = NULL THEN K
    ELSE countLow(detect([K EXCEPT !.SESSION.trustScore = score],
                         detectBot(extractKS(R), extractMouse(R), R),
                         detectReplay(R), t),
                  Val(score), t)

\* main.js:322-342, the branch taken when training is over
evaluate(K, R, clock, t) == scored(K, calcTrustScore(K.SESSION, R, clock), R, t)

\* a tick that does not ask whether monitoring is on
tickWhileStopped(K, R, clock, t) ==
    LET S == K.SESSION
        K1 == [K EXCEPT
                 !.SESSION.activeTime =
                     IF S.isTraining /\ S.lastActive # NULL
                        /\ (t - Val(S.lastActive)) < ACTIVE_GAP
                     THEN @ + (t - S.lastTick)
                     ELSE @,
                 !.SESSION.lastTick = t]
    IN IF S.isTraining THEN checkTrainingProgress(K1, R, t)
       ELSE evaluate(K1, R, clock, t)

tick(K, R, clock, t) ==
    IF ~isMonitoring THEN K
    ELSE
    LET S == K.SESSION
        K1 == [K EXCEPT
                 !.SESSION.activeTime =
                     IF S.isTraining /\ S.lastActive # NULL
                        /\ (t - Val(S.lastActive)) < ACTIVE_GAP
                     THEN @ + (t - S.lastTick)
                     ELSE @,
                 !.SESSION.lastTick = t]
    IN IF S.isTraining THEN checkTrainingProgress(K1, R, t)
       ELSE evaluate(K1, R, clock, t)

-----------------------------------------------------------------------------
(* Storage, main.js:394-424 *)

\* the state a process is born with, main.js:17-45
ModuleInit(st, nonce, t) ==
    [RAW |-> [keydowns |-> EmptyMap, ksEvents |-> <<>>, mouseEvts |-> <<>>,
              clicks |-> <<>>, scrolls |-> <<>>, digraphs |-> EmptyMap,
              trigraphs |-> EmptyMap, jitterBuf |-> <<>>, lastRelease |-> NULL,
              nonce |-> nonce],
     SESSION |-> [start |-> t, activeTime |-> 0, lastActive |-> NULL, lastTick |-> t,
                  isTraining |-> TRUE, phase |-> "quick", trainStart |-> NULL,
                  profile |-> NULL, trustScore |-> NULL, consecutive |-> 0],
     shared |-> [digraphs |-> {}, trigraphs |-> {}]]

\* m = [RAW, SESSION, shared]; st the store; t is Date.now()
loadProfile(m, st, t) ==
    LET p == Val(st.profile)
        m1 == IF st.profile # NULL
              THEN [m EXCEPT
                      !.SESSION.profile = st.profile,
                      !.SESSION.isTraining = FALSE,
                      !.SESSION.phase = "complete",
                      \* new Map(Object.entries(p.digraphs)) holds p's own arrays
                      !.RAW.digraphs = IF Has(p, "digraphs") THEN p.digraphs ELSE @,
                      !.shared.digraphs = IF Has(p, "digraphs") THEN DOMAIN p.digraphs ELSE @,
                      !.RAW.trigraphs = IF Has(p, "trigraphs") THEN p.trigraphs ELSE @,
                      !.shared.trigraphs = IF Has(p, "trigraphs") THEN DOMAIN p.trigraphs ELSE @]
              ELSE m
        tr == Val(st.training)
    IN IF st.training # NULL /\ m1.SESSION.isTraining
       THEN [m1 EXCEPT
               \* tr.activeTime||0, tr.phase||'quick': a missing or falsy field
               !.SESSION.activeTime = IF Has(tr, "activeTime") THEN tr.activeTime ELSE 0,
               !.SESSION.phase = IF Has(tr, "phase") /\ tr.phase # "" THEN tr.phase
                                 ELSE "quick",
               !.RAW.ksEvents = IF Has(tr, "ksEvents") THEN tr.ksEvents ELSE @,
               !.RAW.digraphs = IF Has(tr, "digs") THEN tr.digs ELSE @,
               !.SESSION.lastActive = Some(t)]
       ELSE m1

saveTrainingProgress(st, S, R, t) ==
    IF ~S.isTraining THEN st
    ELSE [st EXCEPT !.training =
            Some([ksEvents |-> LastN(R.ksEvents, SNAPSHOT_KEEP), activeTime |-> S.activeTime,
                  phase |-> S.phase, digs |-> R.digraphs, saved |-> t])]

\* m = [RAW, SESSION, shared, ALERTS, store]
resetProfile(m, nonce) ==
    [m EXCEPT
       !.SESSION.profile = NULL, !.SESSION.isTraining = TRUE, !.SESSION.phase = "quick",
       !.SESSION.activeTime = 0, !.SESSION.lastActive = NULL, !.SESSION.trustScore = NULL,
       !.SESSION.consecutive = 0, !.SESSION.trainStart = NULL,
       !.RAW.ksEvents = <<>>, !.RAW.mouseEvts = <<>>, !.RAW.clicks = <<>>,
       !.RAW.scrolls = <<>>, !.RAW.digraphs = EmptyMap, !.RAW.trigraphs = EmptyMap,
       !.RAW.jitterBuf = <<>>, !.RAW.lastRelease = NULL, !.RAW.nonce = nonce,
       !.shared = [digraphs |-> {}, trigraphs |-> {}],
       !.ALERTS = <<>>,
       !.store.profile = NULL, !.store.training = NULL, !.store.alerts = <<>>]

\* SETTINGS and ALERTS as read from the store when the module is loaded, main.js:40-45
DefaultSettings == [enabled |-> TRUE, sensitivity |-> "medium", autoBlock |-> FALSE]
StoredSettings(st) == IF st.settings # NULL THEN Val(st.settings) ELSE DefaultSettings

-----------------------------------------------------------------------------
(* Inputs of the environment *)

\* getHours() and getDay() of the wall clock during the run
Clocks == {[h |-> 14, day |-> 3], [h |-> 23, day |-> 3]}

\* what the renderer sends with save-settings
SettingsUpdates ==
    {[sensitivity |-> "low"], [sensitivity |-> "high"], [autoBlock |-> TRUE],
     [enabled |-> FALSE], [enabled |-> TRUE]}

\* buffered key events of an earlier process, written by saveTrainingProgress
OldKeys ==
    <<[kc |-> 30, dwell |-> 250, flight |-> NULL, ts |-> 100, nonce |-> 1],
      [kc |-> 31, dwell |-> 250, flight |-> Some(0), ts |-> 350, nonce |-> 1]>>
OldDigs == [h \in {_hashPair(30, 31)} |-> <<250>>]

EmptyStore == [settings |-> NULL, profile |-> NULL, training |-> NULL, alerts |-> <<>>]

Snapshot(phase, activeTime, ks, digs) ==
    Some([ksEvents |-> ks, activeTime |-> activeTime, phase |-> phase, digs |-> digs,
          saved |-> 0])

\* a keyboard-only baseline with the given median dwell and median interval
KsBaseline(medDwell, medIv) ==
    Some([medDwell |-> F(medDwell), madDwell |-> F(0), medFlight |-> F(0),
          medIv |-> F(medIv), iqrIv |-> F(0), wpm |-> F(0),
          digVar |-> [lo |-> F(0), hi |-> F(0)], n |-> 2])

ProfileDoc(features, digraphs) ==
    [uid |-> "user", createdAt |-> 0, features |-> features,
     digraphs |-> digraphs, trigraphs |-> EmptyMap,
     size |-> [keystrokes |-> 2, mouse |-> 0, clicks |-> 0,
               digraphs |-> Cardinality(DOMAIN digraphs)],
     v |-> "3.0"]
-----------------------------------------------------------------------------
(* The state machine *)

Memory == [RAW |-> RAW, SESSION |-> SESSION]

World == [SESSION |-> SESSION, store |-> store, shared |-> shared, ALERTS |-> ALERTS,
          isLocked |-> isLocked, lockWindow |-> lockWindow]

SetWorld(K) ==
    /\ SESSION' = K.SESSION
    /\ store' = K.store
    /\ shared' = K.shared
    /\ ALERTS' = K.ALERTS
    /\ isLocked' = K.isLocked
    /\ lockWindow' = K.lockWindow

\* the listener registered for an event type, main.js:511-512
handle(m, e) ==
    CASE e.type = "keydown" -> onKeyDown(m, e.keycode, now)
      [] e.type = "keyup" -> onKeyUp(m, e.keycode, now)
      [] e.type = "mousemove" -> onMouseMove(m, e.x, e.y, now)
      [] e.type = "click" -> onClick(m, e.x, e.y, e.button, now)
      [] e.type = "wheel" -> onWheel(m, e.rotation, now)

\* the hook calls every listener registered for the event, in registration order
RECURSIVE emit(_, _, _)
emit(e, n, m) == IF n = 0 THEN m ELSE emit(e, n - 1, handle(m, e))

\* the running hook reports a raw input event
Deliver(e) ==
    /\ uIOhook.running
    /\ LET m == emit(e, uIOhook.listeners, Memory)
       IN /\ RAW' = m.RAW
          /\ SESSION' = m.SESSION
    /\ UNCHANGED <<now, wallClock, fresh, isMonitoring, isLocked, lockWindow, uIOhook,
                   analysisTimer, saveTimers, shared, SETTINGS, ALERTS, store>>

KeyDown(kc) == Deliver([type |-> "keydown", keycode |-> kc])
KeyUp(kc) == Deliver([type |-> "keyup", keycode |-> kc])
MouseMove(p) == Deliver([type |-> "mousemove", x |-> p[1], y |-> p[2]])
Click(p, btn) == Deliver([type |-> "click", x |-> p[1], y |-> p[2], button |-> btn])
Wheel(r) == Deliver([type |-> "wheel", rotation |-> r])

\* Time passes.  The analysis interval fires when it is due.
Advance(d) ==
    /\ now + d <= T0 + MaxElapsed
    /\ analysisTimer # NULL => now + d <= Val(analysisTimer)
    /\ now' = now + d
    /\ UNCHANGED <<wallClock, fresh, isMonitoring, isLocked, lockWindow, uIOhook, analysisTimer,
                   saveTimers, RAW, SESSION, shared, SETTINGS, ALERTS, store>>

\* setInterval(tick, 3000) fires, main.js:312
Tick ==
    /\ analysisTimer # NULL
    /\ now >= Val(analysisTimer)
    /\ SetWorld(tick(World, RAW, wallClock, now))
    /\ analysisTimer' = Some(Val(analysisTimer) + TICK_MS)
    /\ UNCHANGED <<now, wallClock, fresh, isMonitoring, uIOhook, saveTimers, RAW, SETTINGS>>

\* startMonitoring, main.js:506-524.  outcome: what require() and hook.start() do
StartMonitoring(outcome) ==
    IF isMonitoring THEN UNCHANGED vars
    ELSE
    /\ uIOhook.listeners < MaxListeners
    /\ outcome = "require throws" => ~uIOhook.loaded
    /\ IF outcome = "require throws"
       THEN UNCHANGED <<uIOhook, isMonitoring, analysisTimer, saveTimers>>
       ELSE IF outcome = "start throws"
       THEN /\ uIOhook' = [uIOhook EXCEPT !.loaded = TRUE, !.listeners = @ + 1]
            /\ UNCHANGED <<isMonitoring, analysisTimer, saveTimers>>
       ELSE /\ uIOhook' = [loaded |-> TRUE, listeners |-> uIOhook.listeners + 1,
                           running |-> TRUE]
            /\ isMonitoring' = TRUE
            /\ analysisTimer' = Some(now + TICK_MS)
            /\ saveTimers' = saveTimers + 1
    /\ UNCHANGED <<now, wallClock, fresh, isLocked, lockWindow, RAW, SESSION, shared,
                   SETTINGS, ALERTS, store>>

\* stopMonitoring without stopAnalysisLoop
StopMonitoringKeepsLoop(stopOk) ==
    IF ~isMonitoring THEN UNCHANGED vars
    ELSE
    /\ isMonitoring' = FALSE
    /\ uIOhook' = IF uIOhook.loaded /\ stopOk THEN [uIOhook EXCEPT !.running = FALSE]
                  ELSE uIOhook
    /\ store' = saveTrainingProgress(store, SESSION, RAW, now)
    /\ UNCHANGED <<now, wallClock, fresh, isLocked, lockWindow, saveTimers, RAW, SESSION,
                   shared, SETTINGS, ALERTS, analysisTimer>>

\* stopMonitoring, main.js:526-532.  stopOk: uIOhook.stop() does not throw
StopMonitoring(stopOk) ==
    IF ~isMonitoring THEN UNCHANGED vars
    ELSE
    /\ isMonitoring' = FALSE
    /\ uIOhook' = IF uIOhook.loaded /\ stopOk THEN [uIOhook EXCEPT !.running = FALSE]
                  ELSE uIOhook
    /\ analysisTimer' = NULL
    /\ store' = saveTrainingProgress(store, SESSION, RAW, now)
    /\ UNCHANGED <<now, wallClock, fresh, isLocked, lockWindow, saveTimers, RAW, SESSION,
                   shared, SETTINGS, ALERTS>>

\* ipc reset-profile, main.js:556
ResetProfile ==
    /\ fresh < MaxNonces
    /\ fresh' = fresh + 1
    /\ LET m == resetProfile([RAW |-> RAW, SESSION |-> SESSION, shared |-> shared,
                              ALERTS |-> ALERTS, store |-> store], fresh + 1)
       IN /\ RAW' = m.RAW
          /\ SESSION' = m.SESSION
          /\ shared' = m.shared
          /\ ALERTS' = m.ALERTS
          /\ store' = m.store
    /\ UNCHANGED <<now, wallClock, isMonitoring, isLocked, lockWindow, uIOhook, analysisTimer,
                   saveTimers, SETTINGS>>

\* an import that restarts training
ImportProfileRetrains(raw) ==
    /\ SESSION' = [SESSION EXCEPT !.profile = Some(raw), !.isTraining = TRUE,
                                  !.phase = "quick"]
    /\ store' = [store EXCEPT !.profile = Some(raw)]
    /\ shared' = [digraphs |-> {}, trigraphs |-> {}]
    /\ UNCHANGED <<now, wallClock, fresh, isMonitoring, isLocked, lockWindow, uIOhook,
                   analysisTimer, saveTimers, RAW, SETTINGS, ALERTS>>

\* ipc import-profile, main.js:564-571, for a chosen file that parses to raw
ImportProfile(raw) ==
    /\ SESSION' = [SESSION EXCEPT !.profile = Some(raw), !.isTraining = FALSE]
    /\ store' = [store EXCEPT !.profile = Some(raw)]
    \* JSON.parse builds new arrays: nothing of raw is held by RAW
    /\ shared' = [digraphs |-> {}, trigraphs |-> {}]
    /\ UNCHANGED <<now, wallClock, fresh, isMonitoring, isLocked, lockWindow, uIOhook,
                   analysisTimer, saveTimers, RAW, SETTINGS, ALERTS>>

\* ipc save-settings, main.js:547-552
SaveSettings(s) ==
    /\ SETTINGS' = [k \in DOMAIN SETTINGS \cup DOMAIN s |->
                      IF k \in DOMAIN s THEN s[k] ELSE SETTINGS[k]]
    /\ store' = [store EXCEPT !.settings = Some(SETTINGS')]
    /\ UNCHANGED <<now, wallClock, fresh, isMonitoring, isLocked, lockWindow, uIOhook,
                   analysisTimer, saveTimers, RAW, SESSION, shared, ALERTS>>

\* ipc clear-alerts, main.js:545
ClearAlerts ==
    /\ ALERTS' = <<>>
    /\ store' = [store EXCEPT !.alerts = <<>>]
    /\ UNCHANGED <<now, wallClock, fresh, isMonitoring, isLocked, lockWindow, uIOhook,
                   analysisTimer, saveTimers, RAW, SESSION, shared, SETTINGS>>

\* ipc unlock, main.js:572 with 453-456 and the window's closed handler at 450
Unlock ==
    /\ isLocked' = FALSE
    /\ lockWindow' = FALSE
    /\ UNCHANGED <<now, wallClock, fresh, isMonitoring, uIOhook, analysisTimer, saveTimers,
                   RAW, SESSION, shared, SETTINGS, ALERTS, store>>

\* the state of a new process over the store st, main.js:17-45 and 655-671
Boot(st, nonce) ==
    /\ store' = st
    /\ isMonitoring' = FALSE
    /\ isLocked' = FALSE
    /\ lockWindow' = FALSE
    /\ uIOhook' = [loaded |-> FALSE, listeners |-> 0, running |-> FALSE]
    /\ analysisTimer' = NULL
    /\ saveTimers' = 0
    /\ SETTINGS' = StoredSettings(st)
    /\ ALERTS' = st.alerts
    /\ LET m == loadProfile(ModuleInit(st, nonce, now), st, now)
       IN /\ RAW' = m.RAW
          /\ SESSION' = m.SESSION
          /\ shared' = m.shared

\* The process ends and a new one starts.  graceful: before-quit ran (main.js:683-687)
ColdStart(graceful) ==
    /\ fresh < MaxNonces
    /\ fresh' = fresh + 1
    /\ Boot(IF graceful THEN saveTrainingProgress(store, SESSION, RAW, now) ELSE store,
            fresh + 1)
    /\ UNCHANGED <<now, wallClock>>
-----------------------------------------------------------------------------
(* Specifications *)

MouseBaseline ==
    Some([avgVel |-> F(0), curvature |-> F(0), entropy |-> F(0), jitterFreq |-> F(0),
          n |-> 2])

\* what the store of an earlier run can hold when the process starts
TrainingStores ==
    {EmptyStore,
     [EmptyStore EXCEPT !.training = Snapshot("quick", QUICK_TARGET - TICK_MS, <<>>, EmptyMap)],
     [EmptyStore EXCEPT !.training = Snapshot("intermediate", FULL_TARGET - TICK_MS,
                                              <<>>, EmptyMap)],
     [EmptyStore EXCEPT !.training = Snapshot("intermediate", FULL_TARGET - TICK_MS,
                                              OldKeys, OldDigs)]}

ProfileStores ==
    {[EmptyStore EXCEPT !.profile =
        Some(ProfileDoc([ks |-> KsBaseline(500, 750), mouse |-> NULL, click |-> NULL],
                        OldDigs))]}

\* the shape of a profile document
HasProfileShape(raw) ==
    DOMAIN raw = {"uid", "createdAt", "features", "digraphs", "trigraphs", "size", "v"}

\* the files the user can pick in the import dialog
LongList == [i \in 1..(NGRAM_CAP + 1) |-> 250]
ImportDocs ==
    {ProfileDoc([ks |-> NULL, mouse |-> MouseBaseline, click |-> NULL], EmptyMap),
     ProfileDoc([ks |-> KsBaseline(500, 750), mouse |-> NULL, click |-> NULL],
                [h \in {_hashPair(30, 31)} |-> LongList]),
     [note |-> "not a profile"]}

InitFrom(stores) ==
    /\ now = T0
    /\ wallClock \in Clocks
    /\ fresh = 2
    /\ \E st \in stores :
         /\ store = st
         /\ isMonitoring = FALSE
         /\ isLocked = FALSE
         /\ lockWindow = FALSE
         /\ uIOhook = [loaded |-> FALSE, listeners |-> 0, running |-> FALSE]
         /\ analysisTimer = NULL
         /\ saveTimers = 0
         /\ SETTINGS = StoredSettings(st)
         /\ ALERTS = st.alerts
         /\ LET m == loadProfile(ModuleInit(st, 2, T0), st, T0)
            IN /\ RAW = m.RAW
               /\ SESSION = m.SESSION
               /\ shared = m.shared

Init == InitFrom(TrainingStores \cup ProfileStores)

Input ==
    \/ \E kc \in KeyCodes : KeyDown(kc)
    \/ \E kc \in KeyCodes : KeyUp(kc)
    \/ \E p \in MousePoints : MouseMove(p)
    \/ \E p \in ClickPoints, btn \in Buttons : Click(p, btn)
    \/ \E r \in Rotations : Wheel(r)

Next ==
    \/ Input
    \/ \E d \in TimeSteps : Advance(d)
    \/ Tick
    \/ \E outcome \in {"ok", "require throws", "start throws"} : StartMonitoring(outcome)
    \/ \E stopOk \in BOOLEAN : StopMonitoring(stopOk)
    \/ ResetProfile
    \/ \E raw \in ImportDocs : ImportProfile(raw)
    \/ \E s \in SettingsUpdates : SaveSettings(s)
    \/ ClearAlerts
    \/ Unlock
    \/ \E graceful \in BOOLEAN : ColdStart(graceful)

Spec == Init /\ [][Next]_vars

-----------------------------------------------------------------------------
(* Scenarios: the machine above under an environment that types one key,     *)
(* holds it for KeyHold ms, and otherwise lets time run to the next firing   *)
(* of the analysis interval (or one period of it while none is set)          *)

KeyHold == 750

Typing == KeyDown(30) \/ KeyUp(30)

Pace(horizon) ==
    \E d \in (IF RAW.keydowns # EmptyMap THEN {KeyHold} ELSE {})
             \cup (IF analysisTimer # NULL THEN {Val(analysisTimer) - now} ELSE {TICK_MS}) :
        /\ d > 0
        /\ now + d <= T0 + horizon
        /\ Advance(d)

\* Training: a session that starts from a training snapshot or from nothing
TrainHorizon == 6000

TrainStores ==
    {EmptyStore,
     [EmptyStore EXCEPT !.training = Snapshot("quick", QUICK_TARGET - TICK_MS, <<>>, EmptyMap)],
     [EmptyStore EXCEPT !.training = Snapshot("intermediate", FULL_TARGET - TICK_MS,
                                              <<>>, EmptyMap)]}

InitTrain == InitFrom(TrainStores) /\ wallClock.h = 14

NextTrain ==
    \/ Typing
    \/ Pace(TrainHorizon)
    \/ Tick
    \/ StartMonitoring("ok")
    \/ ResetProfile
    \/ ColdStart(FALSE)

SpecTrain == InitTrain /\ [][NextTrain]_vars
\* A session with a profile: one stored by an earlier run, or one about to be completed
SessionHorizon == 3000

SessionStores ==
    ProfileStores
    \cup {[EmptyStore EXCEPT !.training = Snapshot("intermediate", FULL_TARGET - TICK_MS,
                                                   OldKeys, OldDigs)]}

InitSession == InitFrom(SessionStores) /\ wallClock.h = 14

NextSession ==
    \/ Typing
    \/ Pace(SessionHorizon)
    \/ Tick
    \/ \E outcome \in {"ok", "require throws", "start throws"} : StartMonitoring(outcome)
    \/ \E stopOk \in BOOLEAN : StopMonitoring(stopOk)
    \/ ResetProfile
    \/ \E raw \in ImportDocs : ImportProfile(raw)
    \/ \E graceful \in BOOLEAN : ColdStart(graceful)

SpecSession == InitSession /\ [][NextSession]_vars

\* Scoring: a stored profile is monitored over several evaluations
ScoreHorizon == 9000

ScoreSettings == {[sensitivity |-> "low"], [sensitivity |-> "high"]}

InitScore == InitFrom(ProfileStores)

NextScore ==
    \/ Typing
    \/ Pace(ScoreHorizon)
    \/ Tick
    \/ StartMonitoring("ok")
    \/ \E s \in ScoreSettings : SaveSettings(s)

SpecScore == InitScore /\ [][NextScore]_vars

\* Evaluation: a session in which every imported file is a profile document
EvalHorizon == 3000

InitEval == InitFrom(SessionStores) /\ wallClock.h = 14

NextEval ==
    \/ Typing
    \/ Pace(EvalHorizon)
    \/ Tick
    \/ StartMonitoring("ok")
    \/ \E raw \in {d \in ImportDocs : HasProfileShape(d)} : ImportProfile(raw)

SpecEval == InitEval /\ [][NextEval]_vars

\* Range: a session with mouse input in which the imported profile can hold a
\* mouse baseline without numbers
PartialDoc ==
    ProfileDoc([ks |-> NULL, mouse |-> Some([n |-> 2]), click |-> NULL], EmptyMap)

RangeHorizon == 3000

InitRange == InitFrom({EmptyStore})

NextRange ==
    \/ \E p \in MousePoints : MouseMove(p)
    \/ Pace(RangeHorizon)
    \/ Tick
    \/ StartMonitoring("ok")
    \/ \E raw \in {PartialDoc} \cup {d \in ImportDocs : HasProfileShape(d)} :
          ImportProfile(raw)

SpecRange == InitRange /\ [][NextRange]_vars

\* Gate: input of every kind while monitoring is started and stopped and the
\* 'enabled' setting is switched
GateHorizon == 750

InitGate == InitFrom({EmptyStore}) /\ wallClock.h = 14

NextGate ==
    \/ Typing
    \/ MouseMove(<<4, 0>>)
    \/ Click(<<0, 0>>, 1)
    \/ Wheel(1)
    \/ Pace(GateHorizon)
    \/ StartMonitoring("ok")
    \/ \E stopOk \in BOOLEAN : StopMonitoring(stopOk)
    \/ \E on \in BOOLEAN : SaveSettings([enabled |-> on])

SpecGate == InitGate /\ [][NextGate]_vars

\* Monitor: monitoring is started and stopped, with every outcome of loading,
\* starting and stopping the hook
MonitorHorizon == 6000

InitMonitor == InitFrom({EmptyStore} \cup ProfileStores) /\ wallClock.h = 14

NextMonitor ==
    \/ Typing
    \/ Pace(MonitorHorizon)
    \/ Tick
    \/ \E outcome \in {"ok", "require throws", "start throws"} : StartMonitoring(outcome)
    \/ \E stopOk \in BOOLEAN : StopMonitoring(stopOk)

SpecMonitor == InitMonitor /\ [][NextMonitor]_vars

\* Detect: a monitored session with a stored profile, `start` ms after the process
\* started, that has buffered the input buf.  The buffers are within the
\* capacities of the program (3000 key events, 2000 mouse samples, 200 jitter
\* samples, 30 intervals per digraph).
DetectStart == 6000
DetectHorizon == 9000

InitDetect(start, buf) ==
    LET st == CHOOSE x \in ProfileStores : TRUE
        m == loadProfile(ModuleInit(st, 2, T0), st, T0)
    IN /\ now = T0 + start
       /\ wallClock = [h |-> 14, day |-> 3]
       /\ fresh = 2
       /\ store = st
       /\ isMonitoring = TRUE
       /\ isLocked = FALSE
       /\ lockWindow = FALSE
       /\ uIOhook = [loaded |-> TRUE, listeners |-> 1, running |-> TRUE]
       /\ analysisTimer = Some(T0 + start)
       /\ saveTimers = 1
       /\ SETTINGS = StoredSettings(st)
       /\ ALERTS = st.alerts
       /\ RAW = [m.RAW EXCEPT !.ksEvents = buf.ksEvents, !.mouseEvts = buf.mouseEvts,
                              !.jitterBuf = buf.jitterBuf, !.digraphs = buf.digraphs]
       /\ SESSION = m.SESSION
       /\ shared = m.shared

\* n key events pressed every 250 ms, the press after event late (if any) 250 ms
\* later, the event numbered other (if any) under the nonce of another process
RegularKeys(n, late, other) ==
    [i \in 1..n |->
        [kc |-> 30, dwell |-> 250, flight |-> NULL,
         ts |-> T0 + 100 + 250 * (i - 1) + (IF late > 0 /\ i > late THEN 250 ELSE 0),
         nonce |-> IF i = other THEN 1 ELSE 2]]

ReplayKeys ==
    {RegularKeys(n, late, other) :
        n \in (0..8) \cup {21}, late \in 0..8, other \in 0..8}

InitReplay ==
    \E ks \in ReplayKeys :
        InitDetect(DetectStart, [ksEvents |-> ks, mouseEvts |-> <<>>, jitterBuf |-> <<>>,
                                 digraphs |-> OldDigs])

NextReplay ==
    \/ Tick
    \/ Pace(DetectHorizon)

SpecReplay == InitReplay /\ [][NextReplay]_vars
\* Bot: the session of Detect two minutes after the process started, with enough
\* input buffered for the feature vectors of the program (50 key events, 30 mouse
\* samples) and for the sample counts detectBot asks for.
BotStart == 120000

\* n key events, the presses alternately gapA and gapB ms apart
PacedKeys(n, gapA, gapB) ==
    [i \in 1..n |->
        [kc |-> 30, dwell |-> 10, flight |-> NULL,
         ts |-> T0 + 100 + gapA * (i \div 2) + gapB * ((i - 1) \div 2),
         nonce |-> 2]]

BotKeys ==
    {<<>>,
     PacedKeys(50, 20, 20),          \* faster than 30 ms, regular
     PacedKeys(50, 100, 100),        \* regular
     PacedKeys(50, 50, 150),         \* irregular
     PacedKeys(50, 20, 60),          \* faster than 30 ms in the median, irregular
     PacedKeys(50, 2000, 2000)}      \* no interval under 2000 ms

\* k distinct digraphs of one interval each, the first with the intervals first
ManyDigraphs(k, first) ==
    [h \in {_hashPair(30, 30 + i) : i \in 1..k} |->
        IF h = _hashPair(30, 31) THEN first ELSE <<250>>]

BotDigraphs ==
    {ManyDigraphs(k, <<250>>) : k \in 9..11} \cup {ManyDigraphs(11, <<100, 200, 300>>)}

\* The buffers after n mouse moves, as onMouseMove fills them: the first `turns`
\* samples zigzag (4 px along x, then 4 px along y) zdt ms apart, the others run
\* along x dt ms apart, every third move 8 px long if pulsed and 4 px otherwise.
MouseTrail(n, zdt, turns, dt, pulsed) ==
    LET stepLen(i) == IF pulsed /\ i % 3 = 0 THEN 8 ELSE 4
        z(i) == Min(i, turns)
        x(i) == 4 * (z(i) \div 2) + 4 * (i - z(i)) + (IF pulsed THEN 4 * (i \div 3) ELSE 0)
        y(i) == 4 * ((z(i) - 1) \div 2)
        t(i) == T0 + 100 + zdt * z(i) + dt * (i - z(i))
        gap(i) == IF i <= turns THEN zdt ELSE dt
        inWindow(i) == i >= 2 /\ gap(i) < MOUSE_DT_MAX
        hasAcc(i) == inWindow(i) /\ inWindow(i - 1)
        v(i) == Frac(stepLen(i) * 1000, gap(i))
        acc(i) == FDiv(FAbs(FSub(v(i), v(i - 1))), Frac(gap(i), 1000))
    IN [mouseEvts |-> [i \in 1..n |->
                         [x |-> x(i), y |-> y(i), t |-> t(i), nonce |-> 2,
                          v |-> IF inWindow(i) THEN Some(v(i)) ELSE NULL,
                          acc |-> IF hasAcc(i) THEN Some(acc(i)) ELSE NULL]],
        jitterBuf |-> Map1(LAMBDA i : [t |-> t(i), acc |-> acc(i), v |-> v(i)],
                           SelectSeq([i \in 1..n |-> i], hasAcc))]

BotTrails ==
    {MouseTrail(0, 100, 1, 100, FALSE)}
    \cup {MouseTrail(n, 100, 1, 100, FALSE) : n \in {19, 20, 30}}        \* straight
    \cup {MouseTrail(n, 100, n, 100, FALSE) : n \in {19, 30}}            \* zigzag
    \cup {MouseTrail(30, dt, 1, dt, TRUE) : dt \in {25, 100, 400}}       \* uneven speed
    \cup {MouseTrail(60, 600, 12, 100, FALSE)}   \* slow zigzag, then 48 samples straight

InitBot ==
    \E ks \in BotKeys, dg \in BotDigraphs, tr \in BotTrails :
        InitDetect(BotStart, [ksEvents |-> ks, mouseEvts |-> tr.mouseEvts,
                              jitterBuf |-> tr.jitterBuf, digraphs |-> dg])

NextBot == Tick

SpecBot == InitBot /\ [][NextBot]_vars
\* Snapshot: a first run that finds a training snapshot of an earlier run, whole
\* or damaged, and no profile
SnapshotHorizon == 3000

DamagedSnapshots ==
    {[ksEvents |-> <<>>, digs |-> EmptyMap, saved |-> 0],                        \* no fields
     [ksEvents |-> <<>>, activeTime |-> TICK_MS, digs |-> EmptyMap, saved |-> 0],
     [ksEvents |-> <<>>, activeTime |-> TICK_MS, phase |-> "", digs |-> EmptyMap, saved |-> 0],
     [ksEvents |-> <<>>, activeTime |-> TICK_MS, phase |-> "done", digs |-> EmptyMap,
      saved |-> 0],
     [ksEvents |-> <<>>, phase |-> "intermediate", digs |-> EmptyMap, saved |-> 0],
     [ksEvents |-> <<>>, activeTime |-> 0 - TICK_MS, phase |-> "intermediate",
      digs |-> EmptyMap, saved |-> 0]}

SnapshotStores ==
    {EmptyStore,
     [EmptyStore EXCEPT !.training = Snapshot("intermediate", TICK_MS, <<>>, EmptyMap)]}
    \cup {[EmptyStore EXCEPT !.training = Some(tr)] : tr \in DamagedSnapshots}

InitSnapshot == InitFrom(SnapshotStores) /\ wallClock.h = 14

NextSnapshot ==
    \/ Typing
    \/ Pace(SnapshotHorizon)
    \/ Tick
    \/ StartMonitoring("ok")
    \/ \E graceful \in BOOLEAN : ColdStart(graceful)

SpecSnapshot == InitSnapshot /\ [][NextSnapshot]_vars
\* Quiet: the session of Detect with eight key events buffered, which takes input,
\* can be stopped and started again, and can be reset into training
InitQuiet ==
    \E late \in {0, 3} :
        InitDetect(DetectStart, [ksEvents |-> RegularKeys(8, late, 0), mouseEvts |-> <<>>,
                                 jitterBuf |-> <<>>, digraphs |-> OldDigs])

NextQuiet ==
    \/ Typing
    \/ Wheel(1)
    \/ Pace(DetectHorizon)
    \/ Tick
    \/ StartMonitoring("ok")
    \/ StopMonitoring(TRUE)
    \/ ResetProfile

SpecQuiet == InitQuiet /\ [][NextQuiet]_vars
\* Lock: the session of Detect one evaluation after monitoring started, scored for
\* three evaluations under either autoBlock setting
LockStart == 3000

LockKeys ==
    {RegularKeys(8, 0, 0),           \* score 25/3, identical intervals
     RegularKeys(8, 3, 0),           \* score 25/3
     PacedKeys(8, 500, 500),         \* score 950/39
     PacedKeys(8, 750, 750)}         \* score 50

LockTrails == {MouseTrail(0, 100, 1, 100, FALSE), MouseTrail(20, 100, 1, 100, FALSE)}

InitLock ==
    \E ks \in LockKeys, tr \in LockTrails :
        InitDetect(LockStart, [ksEvents |-> ks, mouseEvts |-> tr.mouseEvts,
                               jitterBuf |-> tr.jitterBuf, digraphs |-> OldDigs])

NextLock ==
    \/ Tick
    \/ Pace(MaxElapsed)
    \/ \E s \in {[autoBlock |-> TRUE], [autoBlock |-> FALSE], [sensitivity |-> "high"]} :
          SaveSettings(s)
    \/ Unlock

SpecLock == InitLock /\ [][NextLock]_vars
\* Stale: the session of Lock in which the user can import a profile that has a
\* mouse baseline only
InitStale ==
    \E late \in {0, 3} :
        InitDetect(LockStart, [ksEvents |-> RegularKeys(8, late, 0), mouseEvts |-> <<>>,
                               jitterBuf |-> <<>>, digraphs |-> OldDigs])

NextStale ==
    \/ Tick
    \/ Pace(MaxElapsed)
    \/ Wheel(1)
    \/ ImportProfile(ProfileDoc([ks |-> NULL, mouse |-> MouseBaseline, click |-> NULL],
                                EmptyMap))
    \/ \E on \in BOOLEAN : SaveSettings([autoBlock |-> on])

SpecStale == InitStale /\ [][NextStale]_vars
\* Live: a whole training under a slow typist, who presses one key when another
\* period of the analysis interval without a key event would make the gap between
\* activity signals ACTIVE_GAP ms or more, and releases it KeyHold ms later.
\* setInterval keeps firing the analysis tick and the clock keeps running.
\* The clock runs for QUICK_TARGET + FULL_TARGET ms.
LiveHorizon == 9000000

Press ==
    /\ RAW.keydowns = EmptyMap
    /\ SESSION.lastActive # NULL => now + TICK_MS - Val(SESSION.lastActive) >= ACTIVE_GAP
    /\ KeyDown(30)

Release ==
    /\ Has(RAW.keydowns, 30)
    /\ now - RAW.keydowns[30] = KeyHold
    /\ KeyUp(30)

Elapse ==
    /\ analysisTimer # NULL
    /\ SESSION.lastActive # NULL
    /\ \E d \in (IF RAW.keydowns # EmptyMap THEN {KeyHold} ELSE {Val(analysisTimer) - now}) :
         /\ d > 0
         /\ Has(RAW.keydowns, 30) => now - RAW.keydowns[30] < KeyHold
         /\ now + d <= T0 + LiveHorizon
         /\ now + d <= Val(analysisTimer)
         /\ now + d - Val(SESSION.lastActive) < ACTIVE_GAP
         /\ now' = now + d
    /\ UNCHANGED <<wallClock, fresh, isMonitoring, isLocked, lockWindow, uIOhook, analysisTimer,
                   saveTimers, RAW, SESSION, shared, SETTINGS, ALERTS, store>>

InitLive == InitFrom(TrainStores) /\ wallClock.h = 14

NextLive ==
    \/ StartMonitoring("ok")
    \/ Press
    \/ Release
    \/ Elapse
    \/ Tick

\* setInterval fires tick whenever it is due; tick always moves analysisTimer on
TickDue == analysisTimer # NULL /\ now >= Val(analysisTimer)

\* The last conjunct is WF_vars(Tick) with ENABLED <<Tick>>_vars written out as TickDue.
SpecLive ==
    /\ InitLive
    /\ [][NextLive]_vars
    /\ WF_vars(StartMonitoring("ok"))
    /\ WF_vars(Press)
    /\ WF_vars(Release)
    /\ WF_vars(Elapse)
    /\ ([]<>~TickDue \/ []<><<Tick>>_vars)

\* Restart: a first run that types while training, and is stopped, restarted or
\* killed at any moment
RestartHorizon == 3000

InitRestart == InitFrom({EmptyStore}) /\ wallClock.h = 14

NextRestart ==
    \/ Typing
    \/ Pace(RestartHorizon)
    \/ Tick
    \/ StartMonitoring("ok")
    \/ StopMonitoring(TRUE)
    \/ ResetProfile
    \/ \E graceful \in BOOLEAN : ColdStart(graceful)

SpecRestart == InitRestart /\ [][NextRestart]_vars

\* Hook: mouse input while monitoring is started, with every outcome of loading and
\* starting the hook, and stopped
HookHorizon == 3000

InitHook == InitFrom({EmptyStore}) /\ wallClock.h = 14

NextHook ==
    \/ MouseMove(<<4, 0>>)
    \/ Click(<<0, 0>>, 1)
    \/ Wheel(1)
    \/ Pace(HookHorizon)
    \/ \E outcome \in {"ok", "require throws", "start throws"} : StartMonitoring(outcome)
    \/ \E stopOk \in BOOLEAN : StopMonitoring(stopOk)

SpecHook == InitHook /\ [][NextHook]_vars

\* Overlap: two keys are pressed and released in any order, OverlapStep ms apart or
\* at the same instant
OverlapHorizon == 1000
OverlapStep == 250

InitOverlap == InitFrom({EmptyStore}) /\ wallClock.h = 14

NextOverlap ==
    \/ StartMonitoring("ok")
    \/ \E kc \in KeyCodes : KeyDown(kc)
    \/ \E kc \in KeyCodes : KeyUp(kc)
    \/ now + OverlapStep <= T0 + OverlapHorizon /\ Advance(OverlapStep)

SpecOverlap == InitOverlap /\ [][NextOverlap]_vars

-----------------------------------------------------------------------------
(* Properties *)

\* the process is replaced by a new one
Restart == \E graceful \in BOOLEAN : ColdStart(graceful)

Import == \E raw \in ImportDocs : ImportProfile(raw)

\* the alerts a step has added, newest first
NewAlerts == SubSeq(ALERTS', 1, Len(ALERTS') - Len(ALERTS))

\* C1: the raw buffers stay within their capacities, and so does every interval
\* list stored under a digraph or trigraph key.
C1_BuffersBounded ==
    /\ Len(RAW.ksEvents) <= KS_CAP
    /\ Len(RAW.mouseEvts) <= MOUSE_CAP
    /\ Len(RAW.clicks) <= CLICK_CAP
    /\ Len(RAW.scrolls) <= SCROLL_CAP
    /\ Len(RAW.jitterBuf) <= JITTER_CAP
    /\ \A h \in DOMAIN RAW.digraphs : Len(RAW.digraphs[h]) <= NGRAM_CAP
    /\ \A h \in DOMAIN RAW.trigraphs : Len(RAW.trigraphs[h]) <= NGRAM_CAP

\* C2: from the moment SESSION.profile exists until resetProfile or import-profile
\* replaces it (or the process ends), no step changes any field of it, whatever key
\* events are ingested.
C2_ProfileNeverPartiallyMutated ==
    [][(SESSION.profile # NULL /\ SESSION'.profile # SESSION.profile)
         => (ResetProfile \/ Import \/ Restart)]_vars

\* C3: during training every increase of SESSION.activeTime is made by an activity
\* signal and equals the time since the previous activity signal, which is under 10 s.
C3_ActiveTimeOnlyFromSignals ==
    [][(SESSION'.activeTime > SESSION.activeTime /\ ~Restart)
         => /\ SESSION.lastActive # NULL
            /\ SESSION'.lastActive = Some(now)
            /\ SESSION'.activeTime - SESSION.activeTime = now - Val(SESSION.lastActive)
            /\ now - Val(SESSION.lastActive) < ACTIVE_GAP]_vars

\* C4: after resetProfile the session fields and all raw ingestion state equal their
\* values at process start (every buffer and timing map empty, the pending key-press
\* map and lastRelease included), with a nonce never used before.
C4_ResetRestoresColdStart ==
    [][ResetProfile
         => /\ SESSION'.profile = NULL
            /\ SESSION'.isTraining
            /\ SESSION'.phase = "quick"
            /\ SESSION'.activeTime = 0
            /\ SESSION'.lastActive = NULL
            /\ SESSION'.trustScore = NULL
            /\ SESSION'.consecutive = 0
            /\ RAW' = ModuleInit(store', RAW'.nonce, now).RAW
            /\ RAW'.nonce > fresh]_vars

\* a firing of the analysis interval: only Tick moves a set timer to a later time
TickStep ==
    /\ analysisTimer # NULL
    /\ analysisTimer' # NULL
    /\ analysisTimer' # analysisTimer
    /\ Tick

\* a periodic evaluation that runs while monitoring and training are on
TrainingTick == isMonitoring /\ SESSION.isTraining /\ TickStep

PhaseOrder ==
    SESSION'.phase # SESSION.phase
        => \/ SESSION.phase = "quick" /\ SESSION'.phase = "intermediate"
           \/ SESSION.phase = "intermediate" /\ SESSION'.phase = "complete"
           \/ ResetProfile

\* a tick in phase quick: at 30 minutes or more the phase becomes intermediate, with
\* activeTime 0 and no profile; otherwise the phase stays quick
QuickTick ==
    (TrainingTick /\ SESSION.phase = "quick")
        => /\ SESSION.activeTime >= QUICK_TARGET => SESSION'.phase = "intermediate"
           /\ \/ /\ SESSION'.phase = "intermediate"
                 /\ SESSION'.activeTime = 0
                 /\ SESSION'.profile = NULL
                 /\ SESSION'.isTraining
              \/ /\ SESSION'.phase = "quick"
                 /\ SESSION'.activeTime < QUICK_TARGET

\* C7 as stated: every change of the phase is quick -> intermediate or
\* intermediate -> complete, or is made by resetProfile; a tick in phase quick
\* with activeTime >= 30 minutes moves to intermediate with activeTime 0 and
\* no profile.
C7_PhaseOnlyForward == [][PhaseOrder /\ QuickTick]_vars

\* C7, within one run of the process: a start of the process reads the phase
\* from the store (loadProfile) and is not bound by the order.
C7_PhaseOnlyForwardInProcess == [][Restart \/ (PhaseOrder /\ QuickTick)]_vars

\* the quick phase of a restored snapshot has ended in this run
C7_Witness ==
    /\ SESSION.phase = "intermediate"
    /\ SESSION.isTraining
    /\ SESSION.activeTime = 0
    /\ SESSION.profile = NULL
    /\ SESSION.lastTick > T0
    /\ store.training # NULL
    /\ Val(store.training).phase = "quick"

Qualifying(k) == k.dwell >= DWELL_MIN /\ k.dwell < DWELL_MAX

\* C8: a tick in phase intermediate that finds activeTime >= 120 minutes creates the
\* profile (v "3.0"), ends training, sets phase complete, persists the profile and
\* deletes the training snapshot when enough key events or mouse samples are
\* buffered; otherwise profile, training flag, phase and store stay as they are.
C8_CompletionAtFullTarget ==
    [][(TrainingTick /\ SESSION.phase = "intermediate" /\ SESSION'.activeTime >= FULL_TARGET)
         => IF \/ Len(SelectSeq(RAW.ksEvents, Qualifying)) >= MIN_KS
               \/ Len(RAW.mouseEvts) >= MIN_MOUSE
            THEN /\ SESSION'.profile # NULL
                 /\ Val(SESSION'.profile).v = "3.0"
                 /\ ~SESSION'.isTraining
                 /\ SESSION'.phase = "complete"
                 /\ store'.profile = SESSION'.profile
                 /\ store'.training = NULL
            ELSE /\ SESSION'.profile = NULL
                 /\ SESSION'.isTraining
                 /\ SESSION'.phase = "intermediate"
                 /\ store' = store]_vars

\* a profile completed on the second evaluation of a run
C8_Witness ==
    /\ SESSION.profile # NULL
    /\ Val(SESSION.profile).createdAt = T0 + 2 * TICK_MS
    /\ Val(SESSION.profile).features.ks # NULL
    /\ SESSION.phase = "complete"
    /\ ~SESSION.isTraining
    /\ store.profile = SESSION.profile
    /\ store.training = NULL
    /\ fresh = 2

\* C5: import-profile of a document that does not have the profile shape leaves
\* SESSION.profile, SESSION.isTraining and the stored profile document unchanged.
C5_ImportValidatesShape ==
    [][\A raw \in ImportDocs :
         (ImportProfile(raw) /\ ~HasProfileShape(raw))
            => /\ SESSION'.profile = SESSION.profile
               /\ SESSION'.isTraining = SESSION.isTraining
               /\ store'.profile = store.profile]_vars

\* a periodic evaluation that runs while monitoring is on and training is off
MonitoringTick == isMonitoring /\ ~SESSION.isTraining /\ TickStep

Added(type, severity) ==
    \E i \in 1..Len(NewAlerts) :
        NewAlerts[i].type = type /\ NewAlerts[i].severity = severity

\* C6: every evaluation that runs while monitoring is on and training is off adds a
\* 'bot' alert of severity critical when the bot detector is positive and a 'replay'
\* alert of severity high when the replay detector is positive, whether or not a
\* trust score could be computed.
C6_DetectorsRunOnEveryEvaluation ==
    [][MonitoringTick
         => /\ detectBot(extractKS(RAW), extractMouse(RAW), RAW).isBot
                  => Added("bot", "critical")
            /\ detectReplay(RAW).isReplay => Added("replay", "high")]_vars

\* C9: from phase complete every step leads to phase complete with the training flag
\* off, except resetProfile, which returns the session to training in phase quick.
C9_CompleteIsTerminal ==
    [][SESSION.phase = "complete"
         => /\ ~SESSION.isTraining
            /\ IF ResetProfile
               THEN SESSION'.isTraining /\ SESSION'.phase = "quick"
               ELSE SESSION'.phase = "complete" /\ ~SESSION'.isTraining]_vars

\* a session completed in this run, monitored, evaluated, stopped, with an imported profile
C9_Witness ==
    /\ SESSION.phase = "complete"
    /\ ~SESSION.isTraining
    /\ SESSION.trainStart # NULL
    /\ SESSION.lastTick > T0
    /\ ~isMonitoring
    /\ SESSION.profile # NULL
    /\ HasProfileShape(Val(SESSION.profile))
    /\ Val(SESSION.profile).createdAt = 0
    /\ store.profile = SESSION.profile

\* the thresholds of the three sensitivities
LowScore(sc) ==
    FLt(sc, F(CASE SETTINGS.sensitivity = "low" -> 15
                [] SETTINGS.sensitivity = "medium" -> 30
                [] SETTINGS.sensitivity = "high" -> 50))

Anomalies == Len(SelectSeq(NewAlerts, LAMBDA a : a.type = "anomaly"))

\* C10: the counter of consecutive low scores is in {0, 1, 2} in every state; an
\* evaluated tick with the score at or above the threshold sets it to 0, one below the
\* threshold increments it, and the tick on which it reaches 3 adds one anomaly alert
\* (critical when the score is under 20, else high) and sets it to 0; no other tick
\* adds an anomaly alert.
C10_ConsecutiveCounter ==
    /\ [](SESSION.consecutive \in {0, 1, 2})
    /\ [][(MonitoringTick /\ calcTrustScore(SESSION, RAW, wallClock) # NULL)
            => LET sc == Val(calcTrustScore(SESSION, RAW, wallClock))
               IN IF ~LowScore(sc)
                  THEN SESSION'.consecutive = 0 /\ Anomalies = 0
                  ELSE IF SESSION.consecutive + 1 < 3
                  THEN SESSION'.consecutive = SESSION.consecutive + 1 /\ Anomalies = 0
                  ELSE /\ SESSION'.consecutive = 0
                       /\ Anomalies = 1
                       /\ Added("anomaly", IF FLt(sc, F(20)) THEN "critical" ELSE "high")]_vars

\* the third low score in a row has raised an anomaly alert of severity high
C10_Witness ==
    /\ Len(ALERTS) > 0
    /\ ALERTS[1].type = "anomaly"
    /\ ALERTS[1].severity = "high"
    /\ ALERTS[1].ts = now
    /\ SESSION.consecutive = 0
    /\ SESSION.trustScore # NULL
    /\ ~FLt(Val(SESSION.trustScore), F(20))

\* C11: SESSION.trustScore is null or a number from 0 to 100, and the time-context
\* factor applied to the risk is greater than 0 and at most 1.
C11_TrustScoreInRange ==
    /\ SESSION.trustScore # NULL
         => FLe(F(0), Val(SESSION.trustScore)) /\ FLe(Val(SESSION.trustScore), F(100))
    /\ FLt(F(0), Adjustment(wallClock.h, wallClock.day))
    /\ FLe(Adjustment(wallClock.h, wallClock.day), F(1))

\* a key-up of key kc reaches the handlers while they ingest
IngestedKeyUp(kc) == isMonitoring /\ SETTINGS.enabled /\ uIOhook.listeners > 0 /\ KeyUp(kc)

DwellInRange(d) == d >= 1 /\ d <= 1000

\* C12: a key-up that resolves a pending press with a dwell in [1,1000] ms appends
\* exactly one key event (that key, that dwell, that press time) to the keystroke
\* buffer; with a dwell outside [1,1000], or with no pending press, the keystroke
\* buffer, the digraph map and the trigraph map stay as they are.  Every buffered
\* key event has a dwell in [1,1000].
C12_KeyUpDwellRule ==
    /\ [](\A i \in 1..Len(RAW.ksEvents) : DwellInRange(RAW.ksEvents[i].dwell))
    /\ [][\A kc \in KeyCodes :
            IngestedKeyUp(kc)
              => IF Has(RAW.keydowns, kc) /\ DwellInRange(now - RAW.keydowns[kc])
                 THEN /\ Len(RAW'.ksEvents) = Min(Len(RAW.ksEvents) + 1, KS_CAP)
                      /\ LET e == RAW'.ksEvents[Len(RAW'.ksEvents)]
                         IN /\ e.kc = kc
                            /\ e.dwell = now - RAW.keydowns[kc]
                            /\ e.ts = RAW.keydowns[kc]
                      /\ \A i \in 1..(Len(RAW'.ksEvents) - 1) :
                            RAW'.ksEvents[i]
                              = RAW.ksEvents[i + Len(RAW.ksEvents) + 1 - Len(RAW'.ksEvents)]
                 ELSE /\ RAW'.ksEvents = RAW.ksEvents
                      /\ RAW'.digraphs = RAW.digraphs
                      /\ RAW'.trigraphs = RAW.trigraphs]_vars

\* a key event is buffered and the latest release, held too long, was not recorded
C12_Witness ==
    /\ Len(RAW.ksEvents) > 0
    /\ RAW.lastRelease # NULL
    /\ LET e == RAW.ksEvents[Len(RAW.ksEvents)]
       IN Val(RAW.lastRelease) > e.ts + e.dwell
    /\ RAW.keydowns = EmptyMap

\* the raw input events the hook can report
Events ==
    {[type |-> "keydown", keycode |-> kc] : kc \in KeyCodes}
    \cup {[type |-> "keyup", keycode |-> kc] : kc \in KeyCodes}
    \cup {[type |-> "mousemove", x |-> p[1], y |-> p[2]] : p \in MousePoints}
    \cup {[type |-> "click", x |-> p[1], y |-> p[2], button |-> btn] :
             p \in ClickPoints, btn \in Buttons}
    \cup {[type |-> "wheel", rotation |-> r] : r \in Rotations}

\* C13: while monitoring is off or the 'enabled' setting is false, each of the five
\* input handlers leaves RAW and SESSION exactly as they are, for every event.
C13_HandlersGated ==
    (~isMonitoring \/ ~SETTINGS.enabled)
        => \A e \in Events : handle(Memory, e) = Memory

\* input was ingested, then 'enabled' was switched off with a key still down
C13_Witness ==
    /\ isMonitoring
    /\ ~SETTINGS.enabled
    /\ uIOhook.running
    /\ Len(RAW.scrolls) > 0
    /\ RAW.keydowns # EmptyMap
    /\ SESSION.lastActive # NULL
    /\ now > Val(SESSION.lastActive)

Start == \E outcome \in {"ok", "require throws", "start throws"} : StartMonitoring(outcome)

Stop == \E stopOk \in BOOLEAN : StopMonitoring(stopOk)

\* a start while monitoring and a stop while stopped change nothing
Idempotent ==
    /\ (isMonitoring /\ Start) => UNCHANGED vars
    /\ (~isMonitoring /\ Stop) => UNCHANGED vars

\* while monitoring stays off the periodic evaluation does not run
NoEvaluationWhileStopped ==
    (~isMonitoring /\ ~isMonitoring')
        => /\ analysisTimer' = NULL
           /\ SESSION'.lastTick = SESSION.lastTick
           /\ SESSION'.trustScore = SESSION.trustScore
           /\ ALERTS' = ALERTS

C15_KeystrokeBufferFifo ==
    [][\A kc \in KeyCodes :
         (/\ IngestedKeyUp(kc)
          /\ Has(RAW.keydowns, kc)
          /\ DwellInRange(now - RAW.keydowns[kc]))
            => LET old == RAW.ksEvents
                   new == RAW'.ksEvents
               IN /\ new[Len(new)].ts = RAW.keydowns[kc]
                  /\ IF Len(old) = KS_CAP
                     THEN SubSeq(new, 1, Len(new) - 1) = Tail(old)
                     ELSE SubSeq(new, 1, Len(new) - 1) = old]_vars

\* the buffer is full, the oldest restored event is gone, the second is now the first
C15_Witness ==
    /\ Len(RAW.ksEvents) = KS_CAP
    /\ RAW.ksEvents[1] = OldKeys[2]
    /\ RAW.ksEvents[KS_CAP].nonce = RAW.nonce

\* C16: over the last 20 buffered key events, detectReplay reports 'Multiple session
\* nonces' iff two of them differ in their nonce; otherwise 'Identical intervals' iff
\* they have more than 5 successive press-time intervals, all equal; otherwise no
\* replay.
C16_DetectReplayRules ==
    LET k == RAW.ksEvents
        n == Len(k)
        first == IF n > 20 THEN n - 19 ELSE 1
        multi == \E i, j \in first..n : k[i].nonce # k[j].nonce
        ident == /\ n - first > 5
                 /\ \A i, j \in first..(n - 1) : k[i + 1].ts - k[i].ts = k[j + 1].ts - k[j].ts
    IN detectReplay(RAW) =
         IF multi THEN [isReplay |-> TRUE, reason |-> "Multiple session nonces"]
         ELSE IF ident THEN [isReplay |-> TRUE, reason |-> "Identical intervals"]
         ELSE [isReplay |-> FALSE, reason |-> ""]

\* an evaluation has reported identical intervals over the last 20 of 21 key events,
\* the first of them under another nonce
C16_Witness ==
    /\ Len(RAW.ksEvents) = 21
    /\ RAW.ksEvents[1].nonce # RAW.ksEvents[2].nonce
    /\ Len(ALERTS) > 0
    /\ ALERTS[1].type = "replay"
    /\ ALERTS[1].msg = <<"Replay attack", "Identical intervals">>

\* the fraction of micro-corrections over the last 50 mouse samples (NaN under 3)
MicroFraction ==
    LET r == LastN(RAW.mouseEvts, 50)
        dir(i) == Atan2Pi(r[i].y - r[i - 1].y, r[i].x - r[i - 1].x)
    IN Frac(Cardinality({i \in 3..Len(r) :
                           MicroCorrection(FAbs(FSub(dir(i - 1), dir(i))))}),
            Len(r) - 2)

\* the rules of the bot scorer whose condition holds, as <<points, reason>>, given
\* the conditions of the three rules that depend on sample counts
BotRules(steady, fewVariances, noCorrections) ==
    LET ks == extractKS(RAW)
        mouse == extractMouse(RAW)
        k == Val(ks)
        m == Val(mouse)
    IN SelectSeq(<<
         <<mouse # NULL /\ FLt(m.entropy, Frac(2, 100)), 40, "Mouse entropy < 0.02">>,
         <<mouse # NULL /\ FLt(F(0), m.jitterFreq)
                        /\ (FLt(m.jitterFreq, F(3)) \/ FLt(F(12), m.jitterFreq)),
           30, "Jitter Hz">>,
         <<mouse # NULL /\ FLt(m.curvature, Frac(1, 100)), 25, "Perfect geometric paths">>,
         <<ks # NULL /\ FLt(k.medIv, F(30)), 50, "Superhuman speed <30ms">>,
         <<ks # NULL /\ steady, 25, "CV too consistent">>,
         <<ks # NULL /\ DigVarLt(k.digVar, 3) /\ fewVariances, 20, "Digraph variance too low">>,
         <<noCorrections, 30, "No micro-corrections">> >>,
         LAMBDA x : x[1])

\* detectBot reports exactly the rules fired, min(100, their sum), and isBot iff the
\* sum is at least 85
BotReport(fired) ==
    LET total == Sum(Map1(LAMBDA x : F(x[2]), fired))[1]
        bot == detectBot(extractKS(RAW), extractMouse(RAW), RAW)
    IN /\ bot.reason = Map1(LAMBDA x : x[3], fired)
       /\ bot.confidence = Min(100, total)
       /\ bot.isBot = (total >= 85)

\* C17: detectBot's score is the sum of the points of exactly the rules whose
\* condition holds (entropy < 0.02: 40; jitter frequency > 0 and outside [3,12]: 30;
\* curvature < 0.01: 25; median interval < 30: 50; IQR/median < 0.15 with >= 30
\* samples: 25; median digraph variance < 3 with >= 10 distinct digraphs: 20;
\* micro-correction fraction < 0.15 over the last 50 mouse samples: 30); isBot iff
\* the sum is >= 85, confidence min(100, sum).
C17_BotScoreRules ==
    LET k == Val(extractKS(RAW))
    IN BotReport(BotRules(
         FLt(FDiv(k.iqrIv, k.medIv), Frac(15, 100)) /\ k.n >= 30,
         Cardinality(DOMAIN RAW.digraphs) >= 10,
         FLt(MicroFraction, Frac(15, 100))))

\* C17, amended: the same, with IQR/median taken as 0 when the median is 0, the
\* digraph rule asking for more than 10 distinct digraphs, and the micro-correction
\* rule asking for at least 20 buffered mouse samples.
C17_BotScoreRulesAsCoded ==
    LET k == Val(extractKS(RAW))
        cv == IF FLt(F(0), k.medIv) THEN FDiv(k.iqrIv, k.medIv) ELSE F(0)
    IN BotReport(BotRules(
         FLt(cv, Frac(15, 100)) /\ k.n >= 30,
         Cardinality(DOMAIN RAW.digraphs) > 10,
         Len(RAW.mouseEvts) >= 20 /\ FLt(MicroFraction, Frac(15, 100))))

\* an evaluation has reported a bot whose last 50 of 60 mouse samples show no
\* micro-correction
C17_Witness ==
    /\ Len(RAW.ksEvents) = 50
    /\ Len(RAW.mouseEvts) = 60
    /\ Cardinality(DOMAIN RAW.digraphs) = 11
    /\ Len(ALERTS) > 0
    /\ ALERTS[1].type = "bot"
    /\ ALERTS[1].msg[2][Len(ALERTS[1].msg[2])] = "No micro-corrections"

Phases == {"quick", "intermediate", "complete"}

\* a training snapshot that is absent, or whose phase or activeTime is missing or
\* not a phase / not a duration
Damaged(training) ==
    \/ training = NULL
    \/ ~Has(Val(training), "phase")
    \/ ~Has(Val(training), "activeTime")
    \/ Val(training).phase \notin Phases
    \/ Val(training).activeTime < 0

\* C18: with no stored profile, a cold start on an absent or damaged training
\* snapshot begins a fresh training session (phase quick, active time 0, training
\* on), and SESSION.phase is one of quick, intermediate, complete after loadProfile.
C18_DamagedSnapshotStartsFresh ==
    LET S == loadProfile(ModuleInit(store, fresh, now), store, now).SESSION
    IN /\ S.phase \in Phases
       /\ (store.profile = NULL /\ Damaged(store.training))
             => S.phase = "quick" /\ S.activeTime = 0 /\ S.isTraining

\* K, the outcome of a handler or of a tick, holds the alerts (if it has any), the
\* trust score and the count of consecutive low scores of the current state
Quiet(K) ==
    /\ Has(K, "ALERTS") => K.ALERTS = ALERTS
    /\ K.SESSION.trustScore = SESSION.trustScore
    /\ K.SESSION.consecutive = SESSION.consecutive

\* C19: no input handler, and no tick taken while training is on or monitoring is
\* off, changes ALERTS, SESSION.trustScore or SESSION.consecutive; alerts are added
\* only by a periodic evaluation that runs while monitoring is on and training off.
C19_OnlyEvaluationScores ==
    /\ [](/\ \A e \in Events : Quiet(handle(Memory, e))
          /\ (SESSION.isTraining \/ ~isMonitoring) => Quiet(tick(World, RAW, wallClock, now)))
    /\ [][Len(ALERTS') > Len(ALERTS) => MonitoringTick]_vars

\* monitoring was stopped after evaluations that scored the session and raised an
\* alert
C19_Witness ==
    /\ ~isMonitoring
    /\ ~SESSION.isTraining
    /\ SESSION.trustScore # NULL
    /\ Len(ALERTS) > 0

\* C20: the evaluator shows the lock screen only on a tick that emits the anomaly
\* alert of a third consecutive low score, with autoBlock on, a score under 20 and
\* the session not locked; never with autoBlock off, with a score of 20 or more, or
\* on a bot or replay detection alone.
C20_LockOnlyOnCriticalAnomaly ==
    [][(isLocked' /\ ~isLocked) \/ (lockWindow' /\ ~lockWindow)
         => /\ MonitoringTick
            /\ SESSION.consecutive = 2
            /\ Added("anomaly", "critical")
            /\ SETTINGS.autoBlock
            /\ SESSION'.trustScore # NULL
            /\ FLt(Val(SESSION'.trustScore), F(20))
            /\ ~isLocked /\ ~lockWindow]_vars

\* the lock screen is up after an anomaly alert
C20_Witness ==
    /\ isLocked
    /\ lockWindow
    /\ SETTINGS.autoBlock
    /\ Len(ALERTS) > 0
    /\ ALERTS[1].type = "anomaly"

\* calcTrustScore has nothing to compute a score from: no profile or no features in
\* it, no current keystroke or mouse features, or no channel with both current and
\* baseline features
CannotScore ==
    LET cur == [ks |-> extractKS(RAW), mouse |-> extractMouse(RAW), click |-> extractClick(RAW)]
        base == Val(SESSION.profile).features
    IN \/ SESSION.profile = NULL
       \/ ~Has(Val(SESSION.profile), "features")
       \/ cur.ks = NULL /\ cur.mouse = NULL
       \/ \A ch \in {"ks", "mouse", "click"} : cur[ch] = NULL \/ base[ch] = NULL

\* C21: a tick on which calcTrustScore cannot compute a score leaves the trust score
\* and the count of consecutive low scores as they are, adds no anomaly alert and
\* shows no lock screen.
C21_StaleScoreNotCounted ==
    [][MonitoringTick /\ CannotScore
         => /\ SESSION'.trustScore = SESSION.trustScore
            /\ SESSION'.consecutive = SESSION.consecutive
            /\ ~Added("anomaly", "critical")
            /\ ~Added("anomaly", "high")
            /\ isLocked' = isLocked]_vars

\* C22: with monitoring on, ticks firing and key events arriving less than 10 s
\* apart, a session in phase 'quick' eventually is in phase 'complete' with
\* isTraining false and a profile.
C22_TrainingCompletes ==
    (isMonitoring /\ SESSION.phase = "quick")
        ~> (SESSION.phase = "complete" /\ ~SESSION.isTraining /\ SESSION.profile # NULL)

C22_Witness ==
    /\ isMonitoring
    /\ SESSION.phase = "complete"
    /\ ~SESSION.isTraining
    /\ SESSION.profile # NULL
    /\ HasProfileShape(Val(SESSION.profile))
    /\ Val(SESSION.profile).createdAt - T0 > FULL_TARGET \div 2

\* C23: every key event in the keystroke buffer carries the nonce of the running
\* process, RAW.nonce, and detectReplay does not report 'Multiple session nonces'.
C23_BufferCarriesCurrentNonce ==
    /\ \A i \in 1..Len(RAW.ksEvents) : RAW.ksEvents[i].nonce = RAW.nonce
    /\ detectReplay(RAW).reason # "Multiple session nonces"

\* the buffer after the step is the buffer before it with one sample appended
\* (and the oldest sample dropped beyond the capacity)
AppendedOne(before, after, cap) ==
    /\ Len(after) > 0
    /\ after = PushCap(before, after[Len(after)], cap)

\* C24: while monitoring is on, a click reported by the hook appends exactly one
\* sample to RAW.clicks, a wheel event one to RAW.scrolls and a mouse move one to
\* RAW.mouseEvts, whatever calls of startMonitoring and stopMonitoring came before.
C24_EventIngestedOnce ==
    [][isMonitoring /\ SETTINGS.enabled
         => /\ Click(<<0, 0>>, 1) => AppendedOne(RAW.clicks, RAW'.clicks, CLICK_CAP)
            /\ Wheel(1) => AppendedOne(RAW.scrolls, RAW'.scrolls, SCROLL_CAP)
            /\ MouseMove(<<4, 0>>)
                 => AppendedOne(RAW.mouseEvts, RAW'.mouseEvts, MOUSE_CAP)]_vars

\* C25: the key events of the keystroke buffer are in non-decreasing order of
\* press time, and no recorded digraph or trigraph interval is negative.
C25_PressOrderAndIntervals ==
    /\ \A i \in 1..(Len(RAW.ksEvents) - 1) : RAW.ksEvents[i].ts <= RAW.ksEvents[i + 1].ts
    /\ \A h \in DOMAIN RAW.digraphs :
         \A i \in 1..Len(RAW.digraphs[h]) : RAW.digraphs[h][i] >= 0
    /\ \A h \in DOMAIN RAW.trigraphs :
         \A i \in 1..Len(RAW.trigraphs[h]) : RAW.trigraphs[h][i] >= 0

\* C26: the training flag, the phase and the profile agree: isTraining is false
\* exactly when the phase is 'complete', and exactly when there is a profile.
C26_FlagPhaseProfileAgree ==
    /\ ~SESSION.isTraining <=> SESSION.phase = "complete"
    /\ SESSION.phase = "complete" <=> SESSION.profile # NULL
====
